---- MODULE Spec2Model ----
(***************************************************************************)
(* Numla: the line orchestrator of Calculator.evaluate and the module      *)
(* state around it (src/unnamed/part_007, lines 307-1304).                 *)
(*                                                                         *)
(* A text is a sequence of lines.  A line is a record [toks, pad]: toks is *)
(* the sequence of its space-separated tokens (the line's text is the      *)
(* tokens joined by single spaces) and pad the number of trailing spaces.  *)
(* Numbers are exact rationals n/d; mathjs and chrono-node are libraries   *)
(* outside the repository and are modelled on the tokens below only.       *)
(***************************************************************************)
EXTENDS Integers, Sequences, FiniteSets, TLC

(***************************************************************************)
(* Bounds of the model.                                                    *)
(***************************************************************************)
MaxLines == 3
MaxSharers == 2
MaxClock == 1
MaxCreated == 2
MaxTaken == 2

(***************************************************************************)
(* Program constants.                                                      *)
(***************************************************************************)
MAX_INPUT_LENGTH == 100000
MAX_LINES == 1000
\* Largest time value of a JavaScript Date, in days from the epoch
\* (8.64e15 ms); new Date(t) beyond it is an Invalid Date.
MAX_DATE_DAYS == 100000000

(***************************************************************************)
(* Values: the results a line can evaluate to.  One record shape           *)
(* [k, n, d, u]: k the kind, n/d the magnitude, u the sequence of unit     *)
(* names of a unit quantity (mathjs keeps a unit's factors in an array:    *)
(* <<"USD">> is dollars, <<"USD", "USD">> dollars squared).                *)
(***************************************************************************)
RECURSIVE GCD(_, _)
GCD(a, b) == IF b = 0 THEN a ELSE GCD(b, a % b)

Abs(x) == IF x < 0 THEN -x ELSE x

Sign(x) == IF x < 0 THEN -1 ELSE IF x > 0 THEN 1 ELSE 0

Val(k, n, d, u) == [k |-> k, n |-> n, d |-> d, u |-> u]

\* the rational n/d in lowest terms, d > 0
Frac(n, d) ==
    LET g == GCD(Abs(n), Abs(d))
        s == IF d < 0 THEN -1 ELSE 1
    IN  Val("num", (s * n) \div g, (s * d) \div g, <<>>)

Num(n) == Val("num", n, 1, <<>>)
Zero == Num(0)
PosInf == Val("inf", 1, 1, <<>>)
NegInf == Val("inf", -1, 1, <<>>)
NaN == Val("nan", 0, 1, <<>>)
Undefined == Val("undefined", 0, 1, <<>>)
\* a mathjs ResultSet (the value of a block of statements)
ResultSet == Val("resultset", 0, 1, <<>>)

UnitQ(n, d, u) ==
    LET f == Frac(n, d) IN Val("unit", f.n, f.d, u)

\* a Date n days after the day the model starts; a time of day read at
\* clock t in zone tz ("" when no zone is given)
DateV(n) == Val("date", n, 1, <<>>)
TimeV(t, tz) == Val("time", t, 1, <<tz>>)
\* new Date(t) with t outside the Date range: its time value is NaN
InvalidDate(v) == v.k = "date" /\ Abs(v.n) > MAX_DATE_DAYS

IsNumber(v) == v.k \in {"num", "inf", "nan"}
IsFiniteNumber(v) == v.k = "num"
IsUnit(v) == v.k = "unit"

(***************************************************************************)
(* mathjs arithmetic on values.  An operation gives [ok, v]: ok = FALSE is *)
(* a thrown error.                                                         *)
(***************************************************************************)
Ok(v) == [ok |-> TRUE, v |-> v]
Thrown == [ok |-> FALSE, v |-> Undefined]

\* math.Unit.UNITS, the currencies: units[c] = [n, d] defines one c as n/d
\* USD; a code outside its domain names no unit
VARIABLE units

UnitNames == {"USD", "EUR", "kg"}
Inv(name) ==
    IF name = "USD" THEN "USD^-1" ELSE IF name = "EUR" THEN "EUR^-1"
    ELSE IF name = "kg" THEN "kg^-1" ELSE name
AllUnitNames == UnitNames \cup {Inv(x) : x \in UnitNames}

\* the base dimension a unit name measures
BaseOfUnit(name) ==
    IF name \in {"USD", "EUR"} THEN "USD"
    ELSE IF name \in {"USD^-1", "EUR^-1"} THEN "USD^-1"
    ELSE name

Count(u, name) == Cardinality({i \in 1..Len(u) : BaseOfUnit(u[i]) = name})
\* Unit.equalBase: the same dimensions
EqualBase(a, b) ==
    \A name \in AllUnitNames : Count(a.u, name) = Count(b.u, name)

RECURSIVE Factor(_)
\* the value [n, d] in base units of one unit u
Factor(u) ==
    IF u = <<>> THEN [n |-> 1, d |-> 1]
    ELSE LET rest == Factor(Tail(u))
             name == Head(u)
         IN  IF name \in DOMAIN units
             THEN [n |-> units[name].n * rest.n, d |-> units[name].d * rest.d]
             ELSE IF name \in {Inv(c) : c \in DOMAIN units}
             THEN LET c == CHOOSE x \in DOMAIN units : Inv(x) = name
                  IN  [n |-> units[c].d * rest.n, d |-> units[c].n * rest.d]
             ELSE rest

\* Unit.to: the quantity a written in the units u of the same dimensions
ToUnits(a, u) ==
    UnitQ(a.n * Factor(a.u).n * Factor(u).d, a.d * Factor(a.u).d * Factor(u).n, u)

\* JavaScript number arithmetic, with the non-finite cases
NumAdd(a, b) ==
    IF a.k = "nan" \/ b.k = "nan" THEN NaN
    ELSE IF a.k = "inf" /\ b.k = "inf" THEN (IF a.n = b.n THEN a ELSE NaN)
    ELSE IF a.k = "inf" THEN a
    ELSE IF b.k = "inf" THEN b
    ELSE Frac(a.n * b.d + b.n * a.d, a.d * b.d)

NumNeg(a) == IF a.k = "nan" THEN NaN ELSE Val(a.k, -a.n, a.d, a.u)

NumMul(a, b) ==
    IF a.k = "nan" \/ b.k = "nan" THEN NaN
    ELSE IF a.k = "inf" \/ b.k = "inf"
         THEN (IF a.n = 0 \/ b.n = 0 THEN NaN
               ELSE IF Sign(a.n) = Sign(b.n) THEN PosInf ELSE NegInf)
    ELSE Frac(a.n * b.n, a.d * b.d)

NumDiv(a, b) ==
    IF a.k = "nan" \/ b.k = "nan" THEN NaN
    ELSE IF a.k = "inf" THEN (IF b.k = "inf" THEN NaN
                              ELSE IF b.n < 0 THEN NumNeg(a) ELSE a)
    ELSE IF b.k = "inf" THEN Zero
    ELSE IF b.n = 0 THEN (IF a.n = 0 THEN NaN
                          ELSE IF a.n > 0 THEN PosInf ELSE NegInf)
    ELSE Frac(a.n * b.d, a.d * b.n)

\* math.add
MathAdd(a, b) ==
    IF IsNumber(a) /\ IsNumber(b) THEN Ok(NumAdd(a, b))
    ELSE IF IsUnit(a) /\ IsUnit(b) /\ EqualBase(a, b)
         THEN Ok(UnitQ(a.n * ToUnits(b, a.u).d + ToUnits(b, a.u).n * a.d,
                       a.d * ToUnits(b, a.u).d, a.u))
    ELSE Thrown

\* math.subtract
MathSubtract(a, b) ==
    IF IsNumber(a) /\ IsNumber(b) THEN Ok(NumAdd(a, NumNeg(b)))
    ELSE IF IsUnit(a) /\ IsUnit(b) /\ EqualBase(a, b)
         THEN Ok(UnitQ(a.n * ToUnits(b, a.u).d - ToUnits(b, a.u).n * a.d,
                       a.d * ToUnits(b, a.u).d, a.u))
    ELSE Thrown

\* math.multiply
MathMultiply(a, b) ==
    IF IsNumber(a) /\ IsNumber(b) THEN Ok(NumMul(a, b))
    ELSE IF IsUnit(a) /\ IsFiniteNumber(b)
         THEN Ok(UnitQ(a.n * b.n, a.d * b.d, a.u))
    ELSE IF IsFiniteNumber(a) /\ IsUnit(b)
         THEN Ok(UnitQ(a.n * b.n, a.d * b.d, b.u))
    ELSE IF IsUnit(a) /\ IsUnit(b)
         THEN Ok(UnitQ(a.n * b.n, a.d * b.d, a.u \o b.u))
    ELSE Thrown

\* math.divide
MathDivide(a, b) ==
    IF IsNumber(a) /\ IsNumber(b) THEN Ok(NumDiv(a, b))
    ELSE IF IsUnit(a) /\ IsFiniteNumber(b) /\ b.n # 0
         THEN Ok(UnitQ(a.n * b.d, a.d * b.n, a.u))
    ELSE IF IsUnit(a) /\ IsUnit(b) /\ b.n # 0
         THEN (IF EqualBase(a, b)
               THEN Ok(Frac(a.n * ToUnits(b, a.u).d, a.d * ToUnits(b, a.u).n))
               ELSE Ok(UnitQ(a.n * b.d, a.d * b.n,
                             a.u \o [i \in 1..Len(b.u) |-> Inv(b.u[i])])))
    ELSE Thrown

(***************************************************************************)
(* Tokens.  TLC cannot look inside a string, so what the code reads off a  *)
(* token's characters is tabulated here for the tokens the texts use.      *)
(***************************************************************************)
Numerals ==
    {"0", "1", "2", "5", "10", "20", "30", "50", "64", "100", "200", "255",
     "1000000"}
NumeralValue(t) ==
    CASE t = "0" -> 0 [] t = "1" -> 1 [] t = "2" -> 2 [] t = "5" -> 5
      [] t = "10" -> 10 [] t = "20" -> 20 [] t = "30" -> 30 [] t = "50" -> 50
      [] t = "64" -> 64 [] t = "100" -> 100 [] t = "200" -> 200
      [] t = "255" -> 255 [] t = "1000000" -> 1000000
\* numbers written with a sign or a decimal comma, as [n, d]
SignedNumerals == {"-10"}
DecimalNumerals == {"0,5"}

\* the number of characters of a token
TokLen(t) ==
    IF t \in {"#", "/", "+", "-", "*", "=", ";", "x", "y", "a", "%", "(", ")",
              "$", "infinity-sign", "0", "1", "2", "5"} THEN 1
    ELSE IF t \in {"//", "10", "20", "30", "50", "64", "in", "kg", "$5", "$2",
                   "of", "on", "is", "as"} THEN 2
    ELSE IF t \in {"100", "200", "255", "-10", "0,5", "sum", "SUM", "avg", "now",
                   "PST", "HKT", "USD", "EUR", "XYZ", "zzz", "2pm", "hex", "bin",
                   "oct", "sci", "HEX", "off", "20%", "10%", "tax"} THEN 3
    ELSE IF t \in {"note", "time", "mean", "prev", "days", "plus", "what"} THEN 4
    ELSE IF t \in {"today", "total", "years", "weeks", "until"} THEN 5
    ELSE IF t \in {"Berlin", "Total:"} THEN 6
    ELSE IF t = "1000000" THEN 7
    ELSE IF t = "tomorrow" THEN 8
    ELSE 10   \* "garbage!!!"

\* String.prototype.toLowerCase
Lower(t) ==
    CASE t = "PST" -> "pst" [] t = "HKT" -> "hkt" [] t = "Berlin" -> "berlin"
      [] t = "Total:" -> "total:" [] t = "SUM" -> "sum" [] t = "USD" -> "usd"
      [] t = "EUR" -> "eur" [] t = "XYZ" -> "xyz" [] t = "HEX" -> "hex"
      [] OTHER -> t

\* String.prototype.toUpperCase
Upper(t) ==
    CASE t = "eur" -> "EUR" [] t = "usd" -> "USD" [] t = "xyz" -> "XYZ"
      [] OTHER -> t

LowerAll(toks) == [i \in 1..Len(toks) |-> Lower(toks[i])]

\* the lower-cased words (maximal runs of \w characters) inside a token
WordsIn(t) ==
    IF t = "Total:" THEN {"total"}
    ELSE IF t = "garbage!!!" THEN {"garbage"}
    ELSE IF t = "$5" THEN {"5"}
    ELSE IF t = "$2" THEN {"2"}
    ELSE IF t \in {"#", "//", "/", "+", "-", "*", "=", ";", "(", ")", "%", "$",
                   "infinity-sign"} THEN {}
    ELSE IF t = "20%" THEN {"20"}
    ELSE IF t = "10%" THEN {"10"}
    ELSE IF t = "-10" THEN {"10"}
    ELSE IF t = "0,5" THEN {"0", "5"}
    ELSE {Lower(t)}

\* the first k characters of a token (text.substring cutting inside it)
TokPrefix(t, k) ==
    IF k >= TokLen(t) THEN t
    ELSE IF t \in {"10", "100", "1000000"} /\ k = 1 THEN "1"
    ELSE IF t \in {"100", "1000000"} /\ k = 2 THEN "10"
    ELSE IF t = "1000000" /\ k = 3 THEN "100"
    ELSE IF t = "20" THEN "2"
    ELSE IF t = "//" THEN "/"
    ELSE "zzz"   \* a fragment of a word: an identifier nothing defines

Line(toks) == [toks |-> toks, pad |-> 0]
Padded(toks, pad) == [toks |-> toks, pad |-> pad]

(***************************************************************************)
(* Display strings.  One record shape [k, h, u]: k = "empty" is '', every  *)
(* other kind is the text inside the result <span>, except "raw" (the      *)
(* infinity signs, returned without a span).                               *)
(***************************************************************************)
Disp(k, h, u) == [k |-> k, h |-> h, u |-> u]
Empty == Disp("empty", 0, <<>>)

\* v rounded to a multiple of 1/q, half away from zero, as a count of 1/q
RoundTo(v, q) == Sign(v.n) * ((2 * Abs(v.n) * q + v.d) \div (2 * v.d))

\* Intl.NumberFormat('it-IT', {maximumFractionDigits: 2}): hundredths
Round2(v) == RoundTo(v, 100)

currencySymbols == {"EUR", "USD", "GBP", "JPY", "CHF", "CAD", "AUD"}
CurrencySymbol(name) ==
    CASE name = "EUR" -> "EUR-sign" [] name = "USD" -> "$" [] name = "GBP" -> "GBP-sign"
      [] name = "JPY" -> "JPY-sign" [] name = "CHF" -> "CHF" [] name = "CAD" -> "CA$"
      [] name = "AUD" -> "A$"

\* Unit.format({precision: 4}): four significant digits, as ten-thousandths
Precision4(v) ==
    LET a == Abs(v.n) IN
    IF a < v.d THEN RoundTo(v, 10000)
    ELSE IF a < 10 * v.d THEN RoundTo(v, 1000) * 10
    ELSE IF a < 100 * v.d THEN RoundTo(v, 100) * 100
    ELSE IF a < 1000 * v.d THEN RoundTo(v, 10) * 1000
    ELSE RoundTo(v, 1) * 10000

\* Calculator._formatResult: [ok, s]; ok = FALSE when it throws
_formatResult(v) ==
    IF v.k \in {"undefined", "function"} THEN [ok |-> TRUE, s |-> Empty]
    ELSE IF v.k \in {"time", "timeConversion"}
         THEN [ok |-> TRUE, s |-> Disp("time", v.n, v.u)]
    ELSE IF v.k = "nan" THEN [ok |-> TRUE, s |-> Empty]
    ELSE IF v.k = "inf" THEN [ok |-> TRUE, s |-> Disp("raw", v.n, <<>>)]
    ELSE IF v.k = "num" THEN [ok |-> TRUE, s |-> Disp("number", Round2(v), <<>>)]
    ELSE IF v.k = "unit"
         THEN IF v.u[1] \in currencySymbols
              THEN \* result.toNumber(unitName) converts to that unit alone
                   IF v.u = <<v.u[1]>>
                   THEN [ok |-> TRUE,
                         s |-> Disp("currency", Round2(v), <<CurrencySymbol(v.u[1])>>)]
                   ELSE [ok |-> FALSE, s |-> Empty]
              ELSE [ok |-> TRUE, s |-> Disp("unit", Precision4(v), v.u)]
    ELSE IF v.k = "date"
         THEN \* Intl.DateTimeFormat.format throws a RangeError on an Invalid Date
              IF InvalidDate(v) THEN [ok |-> FALSE, s |-> Empty]
              ELSE [ok |-> TRUE, s |-> Disp("date", v.n, <<>>)]
    ELSE [ok |-> TRUE, s |-> Disp("text", v.n, v.u)]

\* Intl.NumberFormat('it-IT').format of a count of hundredths, for the
\* numbers the texts give
NumberFormat(h) ==
    CASE h = -1000 -> "-10" [] h = 50 -> "0,5" [] h = 1000 -> "10"
      [] h = 2000 -> "20" [] h = 10000 -> "100"

\* the text inside the <span> of a display string, as tokens
DisplayText(s) ==
    CASE s.k = "number" -> <<NumberFormat(s.h)>>
      [] s.k = "raw" -> <<"infinity-sign">>
      [] s.k = "currency" -> s.u \o <<NumberFormat(s.h)>>
      [] OTHER -> <<>>

(***************************************************************************)
(* Timezone queries.  A resolver gives [hit, v]; hit = FALSE is null.      *)
(***************************************************************************)
Hit(v) == [hit |-> TRUE, v |-> v]
Miss == [hit |-> FALSE, v |-> Undefined]

\* the entries of TIMEZONE_MAP the texts use
TimezoneKeys == {<<"pst">>, <<"hkt">>, <<"berlin">>}
TIMEZONE_MAP(loc) ==
    CASE loc = <<"pst">> -> "America/Los_Angeles"
      [] loc = <<"hkt">> -> "Asia/Hong_Kong"
      [] loc = <<"berlin">> -> "Europe/Berlin"

\* Calculator._parseTime on the time-of-day tokens the texts use: minutes
TimeOfDayToks == {"2pm"}
_parseTime(t) == 14 * 60

\* Calculator._evaluateTimezone
_evaluateTimezone(toks, t) ==
    LET lowerText == LowerAll(toks)
        n == Len(toks)
    IN  IF lowerText = <<"time">> \/ lowerText = <<"now">> THEN Hit(TimeV(t, ""))
        ELSE IF n >= 2 /\ lowerText[n] = "time"
                /\ SubSeq(lowerText, 1, n - 1) \in TimezoneKeys
             THEN Hit(TimeV(t, TIMEZONE_MAP(SubSeq(lowerText, 1, n - 1))))
        ELSE IF n >= 3 /\ lowerText[1] \in {"time", "now"} /\ lowerText[2] = "in"
                /\ SubSeq(lowerText, 3, n) \in TimezoneKeys
             THEN Hit(TimeV(t, TIMEZONE_MAP(SubSeq(lowerText, 3, n))))
        ELSE IF n >= 4 /\ toks[1] \in TimeOfDayToks /\ lowerText[3] = "in"
                /\ <<lowerText[2]>> \in TimezoneKeys
                /\ SubSeq(lowerText, 4, n) \in TimezoneKeys
             THEN Hit(Val("timeConversion", _parseTime(toks[1]), 1,
                          <<TIMEZONE_MAP(<<lowerText[2]>>),
                            TIMEZONE_MAP(SubSeq(lowerText, 4, n))>>))
        ELSE Miss

(***************************************************************************)
(* Trailing results and format suffixes.                                   *)
(***************************************************************************)
Idents == {"x", "y", "zzz", "sum", "total", "avg", "mean", "prev"}
\* tokens made of the characters of [\d.,] only
AllNumerals(toks) ==
    \A i \in 1..Len(toks) : toks[i] \in Numerals \cup DecimalNumerals
\* tokens made of letters only
IsAlpha(t) ==
    /\ t \notin Numerals \cup DecimalNumerals \cup SignedNumerals
    /\ t \notin {"#", "//", "/", "+", "-", "*", "=", ";", "$5", "$2",
                 "Total:", "garbage!!!", "2pm", "(", ")", "%", "20%", "10%",
                 "infinity-sign", "$"}
\* tokens holding one of the characters + - * / ( %
MathToks == {"+", "-", "*", "/", "//", "(", "%", "20%", "10%", "-10"}
HasMath(toks) == \E i \in 1..Len(toks) : toks[i] \in MathToks

\* a variant that cuts a trailing result whatever stands before it
StripAnyTrailingResult(toks) ==
    LET n == Len(toks)
        cuts == {i \in 2..n - 1 :
                    toks[i] = "=" /\ AllNumerals(SubSeq(toks, i + 1, n))}
    IN  IF cuts = {} THEN toks
        ELSE SubSeq(toks, 1, (CHOOSE c \in cuts : \A c2 \in cuts : c <= c2) - 1)

\* Calculator._removeTrailingResult
_removeTrailingResult(toks) ==
    LET n == Len(toks)
        \* /\s*=\s*[\d.,\s]+[a-zA-Z%...]*$/: an "=" followed by numerals and
        \* then at most one word, up to the end of the line
        ResultTail(i) == \/ AllNumerals(SubSeq(toks, i + 1, n))
                   \/ /\ IsAlpha(toks[n]) \/ toks[n] \in {"%", "20%", "10%", "$"}
                      /\ AllNumerals(SubSeq(toks, i + 1, n - 1))
        cuts == {i \in 1..n - 1 : toks[i] = "=" /\ ResultTail(i)}
    IN  IF n >= 3 /\ IsAlpha(toks[1]) /\ toks[2] = "="
           /\ AllNumerals(SubSeq(toks, 3, n))
        THEN toks
        ELSE IF cuts # {}
             THEN LET i == CHOOSE c \in cuts : \A c2 \in cuts : c <= c2
                      partBefore == SubSeq(toks, 1, i - 1)
                  IN  IF HasMath(partBefore) THEN partBefore ELSE toks
        ELSE toks

FormatNames == {"hex", "bin", "oct", "sci", "scientific", "binary", "octal", "hexadecimal"}
\* the format suffix " in hex|bin|oct|sci..." of a line, "" when it has none
FormatSuffix(toks) ==
    LET n == Len(toks) IN
    IF n >= 3 /\ Lower(toks[n - 1]) = "in" /\ Lower(toks[n]) \in FormatNames
    THEN Lower(toks[n]) ELSE ""
StripFormatSuffix(toks) ==
    IF FormatSuffix(toks) = "" THEN toks ELSE SubSeq(toks, 1, Len(toks) - 2)

RECURSIVE Digits(_, _)
\* Number.prototype.toString(base) of a non-negative integer
Digits(n, base) ==
    LET dig == <<"0", "1", "2", "3", "4", "5", "6", "7",
                 "8", "9", "A", "B", "C", "D", "E", "F">>
    IN  IF n < base THEN <<dig[n + 1]>>
        ELSE Digits(n \div base, base) \o <<dig[(n % base) + 1]>>

\* Math.round: the nearest integer, a half going up
MathRound(num) == (2 * num.n + num.d) \div (2 * num.d)

\* Math.round(num).toString(base); Infinity and NaN round to themselves
\* and are written by name
NumberToString(num, base) ==
    IF num.k = "nan" THEN <<"NaN">>
    ELSE IF num.k = "inf"
    THEN (IF num.n < 0 THEN <<"-">> ELSE <<>>) \o <<"Infinity">>
    ELSE (IF MathRound(num) < 0 THEN <<"-">> ELSE <<>>)
         \o Digits(Abs(MathRound(num)), base)

\* String.prototype.toUpperCase on the text of a number (the digits are
\* written in upper case already)
ToUpperCase(toks) ==
    [i \in 1..Len(toks) |->
        CASE toks[i] = "Infinity" -> "INFINITY" [] toks[i] = "NaN" -> "NAN"
          [] OTHER -> toks[i]]

\* Calculator._formatWithBase: the string it returns, as a value
_formatWithBase(num, format) ==
    IF format \in {"hex", "hexadecimal"}
    THEN Val("string", 0, 1, <<"0x">> \o ToUpperCase(NumberToString(num, 16)))
    ELSE IF format \in {"bin", "binary"}
    THEN Val("string", 0, 1, <<"0b">> \o NumberToString(num, 2))
    ELSE IF format \in {"oct", "octal"}
    THEN Val("string", 0, 1, <<"0o">> \o NumberToString(num, 8))
    ELSE \* toExponential(2): the value to three significant digits
         IF num.k = "num" THEN Val("string", Precision4(num), 1, <<"e">>)
         ELSE Val("string", 0, 1, NumberToString(num, 10))

(***************************************************************************)
(* Dates.  chrono-node is modelled on the phrases "today" and "tomorrow";  *)
(* the clock counts days.                                                  *)
(***************************************************************************)
RECURSIVE SumLen(_)
SumLen(toks) == IF toks = <<>> THEN 0 ELSE TokLen(Head(toks)) + SumLen(Tail(toks))
\* the number of characters of the tokens joined by single spaces
TextLen(toks) == IF toks = <<>> THEN 0 ELSE SumLen(toks) + Len(toks) - 1

ChronoPhrases == {"today", "tomorrow", "oct"}
\* the month name is read as a day of the coming October, taken to be 273
\* days ahead
ChronoOffset(tok) ==
    IF Lower(tok) = "tomorrow" THEN 1 ELSE IF Lower(tok) = "oct" THEN 273 ELSE 0
\* chrono.parse: the first date phrase of the text, [found, date, len]
ChronoParse(toks, t) ==
    LET at == {i \in 1..Len(toks) : Lower(toks[i]) \in ChronoPhrases} IN
    IF at = {} THEN [found |-> FALSE, date |-> DateV(0), len |-> 0]
    ELSE LET i == CHOOSE c \in at : \A c2 \in at : c <= c2
         IN  [found |-> TRUE, date |-> DateV(t + ChronoOffset(toks[i])),
              len |-> TokLen(toks[i])]

\* math.unit(right).to('milliseconds'), in whole days: [ok, days]
DurationDays(right) ==
    IF Len(right) = 2 /\ right[1] \in Numerals
       /\ right[2] \in {"day", "days", "week", "weeks", "year", "years"}
    THEN [ok |-> TRUE,
          days |-> IF right[2] \in {"day", "days"} THEN NumeralValue(right[1])
                   ELSE IF right[2] \in {"week", "weeks"} THEN 7 * NumeralValue(right[1])
                   ELSE (1461 * NumeralValue(right[1])) \div 4]
    ELSE [ok |-> FALSE, days |-> 0]

CeilDiv(a, b) == -((-a) \div b)

\* Calculator._evaluateDate (the texts use no holiday keyword)
_evaluateDate(toks, t) ==
    LET n == Len(toks)
        untilMatch == /\ n >= 3
                      /\ Lower(toks[1]) \in {"day", "days", "week", "weeks", "month",
                                             "months", "hour", "hours", "minute", "minutes"}
                      /\ Lower(toks[2]) \in {"until", "to", "till", "before"}
        targetDate == ChronoParse(SubSeq(toks, 3, n), t)
        unit == Lower(toks[1])
        diffDays == targetDate.date.n - t
        parsedDate == ChronoParse(toks, t)
        ops == {i \in 1..n : toks[i] \in {"+", "-"}}
        opAt == CHOOSE c \in ops : \A c2 \in ops : c <= c2
        left == ChronoParse(SubSeq(toks, 1, opAt - 1), t)
        duration == DurationDays(SubSeq(toks, opAt + 1, n))
    IN  IF untilMatch /\ targetDate.found
        THEN Hit(Num(IF unit \in {"day", "days"} THEN diffDays
                     ELSE IF unit \in {"week", "weeks"} THEN CeilDiv(diffDays, 7)
                     ELSE IF unit \in {"month", "months"} THEN CeilDiv(diffDays, 30)
                     ELSE IF unit \in {"hour", "hours"} THEN 24 * diffDays
                     ELSE 1440 * diffDays))
        ELSE IF parsedDate.found /\ TextLen(toks) < 50 /\ ops = {}
        THEN Hit(parsedDate.date)
        ELSE IF ops # {} /\ left.found /\ duration.ok
        THEN Hit(DateV(IF toks[opAt] = "+" THEN left.date.n + duration.days
                       ELSE left.date.n - duration.days))
        ELSE IF parsedDate.found /\ 10 * parsedDate.len > 8 * TextLen(toks)
        THEN Hit(parsedDate.date)
        ELSE Miss

(***************************************************************************)
(* Normalisation and evaluation.                                           *)
(***************************************************************************)
LabelToks == {"Total:"}
\* _preprocess, /^[a-zA-Z][a-zA-Z0-9\s]*:\s*/: drop a leading "Label: "
StripLabel(toks) ==
    LET at == {i \in 1..Len(toks) :
                  /\ toks[i] \in LabelToks
                  /\ \A j \in 1..i - 1 : IsAlpha(toks[j]) \/ toks[j] \in Numerals
                  /\ (i = 1 \/ IsAlpha(toks[1]))}
    IN  IF at = {} THEN toks
        ELSE SubSeq(toks, (CHOOSE c \in at : \A c2 \in at : c <= c2) + 1, Len(toks))

RECURSIVE CurrencySymbols(_)
\* _preprocess: "$10" -> "10 USD"
CurrencySymbols(toks) ==
    IF toks = <<>> THEN <<>>
    ELSE (CASE Head(toks) = "$5" -> <<"5", "USD">>
            [] Head(toks) = "$2" -> <<"2", "USD">>
            [] OTHER -> <<Head(toks)>>) \o CurrencySymbols(Tail(toks))

\* _preprocess: operator words between two other tokens become symbols
OperatorWords(toks) ==
    [i \in 1..Len(toks) |->
        IF i = 1 \/ i = Len(toks) THEN toks[i]
        ELSE CASE Lower(toks[i]) \in {"plus", "and", "with"} -> "+"
               [] Lower(toks[i]) \in {"minus", "subtract", "without"} -> "-"
               [] Lower(toks[i]) \in {"times", "mul"} -> "*"
               [] Lower(toks[i]) = "divide" -> "/"
               [] OTHER -> toks[i]]

\* the literals "X%" and the number X in them
PercentToks == {"20%", "10%"}
PercentNumber(t) == IF t = "20%" THEN "20" ELSE "10"

First(S) == CHOOSE c \in S : \A c2 \in S : c <= c2
Rest(toks, i) == SubSeq(toks, i, Len(toks))
Paren(toks) == <<"(">> \o toks \o <<")">>

\* '($2) / $1'
BaseOfShare(pct, value) == Paren(value) \o <<"/", pct>>
\* `(${value}) / (1 + ${pct}/100)` and its three relatives
Scaled(op, sign, pct, value) ==
    Paren(value) \o <<op>> \o Paren(<<"1", sign, PercentNumber(pct), "/", "100">>)
\* `((${x}) / (${y})) * 100`
Ratio(x, y) == Paren(Paren(x) \o <<"/">> \o Paren(y)) \o <<"*", "100">>
\* `(((${x}) - (${y})) / (${y})) * 100`
RatioOfIncrease(x, y) ==
    Paren(Paren(Paren(x) \o <<"-">> \o Paren(y)) \o <<"/">> \o Paren(y)) \o <<"*", "100">>
\* `(((${y}) - (${x})) / (${y})) * 100`
RatioOfDecrease(x, y) ==
    Paren(Paren(Paren(y) \o <<"-">> \o Paren(x)) \o <<"/">> \o Paren(y)) \o <<"*", "100">>
\* '$1 * ($2)'
Share(pct, value) == <<pct, "*">> \o Paren(value)

\* the replacement of each rule, by the words of the rule
Replacement(words, a, b) ==
    CASE words = <<"of", "what", "is">> -> BaseOfShare(a, b)
      [] words = <<"on", "what", "is">> -> Scaled("/", "+", a, b)
      [] words = <<"off", "what", "is">> -> Scaled("/", "-", a, b)
      [] words = <<"on">> -> Scaled("*", "+", a, b)
      [] words = <<"off">> -> Scaled("*", "-", a, b)
      [] words = <<"as", "of">> -> Ratio(a, b)
      [] words = <<"as", "on">> -> RatioOfIncrease(a, b)
      [] words = <<"as", "off">> -> RatioOfDecrease(a, b)
      [] words = <<"of">> -> Share(a, b)

\* the places where /X%\s+<words>\s+(.+)/i matches: a percentage, the words,
\* and at least one more token
PercentAt(toks, words) ==
    {i \in 1..Len(toks) - Len(words) - 1 :
        /\ toks[i] \in PercentToks
        /\ \A j \in 1..Len(words) : Lower(toks[i + j]) = words[j]}

\* text.replace(/X%\s+<words>\s+(.+)/i, ...): the first match is replaced;
\* the text before the match stays
RewritePercent(toks, words) ==
    IF PercentAt(toks, words) = {} THEN toks
    ELSE SubSeq(toks, 1, First(PercentAt(toks, words)) - 1)
         \o Replacement(words, toks[First(PercentAt(toks, words))],
                        Rest(toks, First(PercentAt(toks, words)) + Len(words) + 1))

\* the words of /\s+as\s+a?\s*%\s+<prep>\s+/i at token i, when they stand
\* there ("as a % of", "as % of"), else <<>>
AsPercentWords(toks, i, prep) ==
    IF i + 4 <= Len(toks) /\ Lower(toks[i]) = "as" /\ Lower(toks[i + 1]) = "a"
       /\ toks[i + 2] = "%" /\ Lower(toks[i + 3]) = prep
    THEN SubSeq(toks, i, i + 3)
    ELSE IF i + 3 <= Len(toks) /\ Lower(toks[i]) = "as" /\ toks[i + 1] = "%"
            /\ Lower(toks[i + 2]) = prep
    THEN SubSeq(toks, i, i + 2)
    ELSE <<>>
AsPercentAt(toks, prep) ==
    {i \in 2..Len(toks) : AsPercentWords(toks, i, prep) # <<>>}

\* text.replace(/(.+?)\s+as\s+a?\s*%\s+<prep>\s+(.+)/i, ...): x is the text
\* up to the first such phrase, y the text after it
RewriteAsPercent(toks, prep) ==
    IF AsPercentAt(toks, prep) = {} THEN toks
    ELSE Replacement(<<"as", prep>>,
              SubSeq(toks, 1, First(AsPercentAt(toks, prep)) - 1),
              Rest(toks, First(AsPercentAt(toks, prep))
                         + Len(AsPercentWords(toks, First(AsPercentAt(toks, prep)), prep))))

\* the three "what is" rules, in the order of the code
WhatIsForms(toks) ==
    RewritePercent(
        RewritePercent(RewritePercent(toks, <<"of", "what", "is">>),
                       <<"on", "what", "is">>),
        <<"off", "what", "is">>)
\* "X% on Y", then "X% off Y"
OnOffForms(toks) == RewritePercent(RewritePercent(toks, <<"on">>), <<"off">>)
\* "X as a % of Y", then "... on Y", then "... off Y"
AsPercentForms(toks) ==
    RewriteAsPercent(RewriteAsPercent(RewriteAsPercent(toks, "of"), "on"), "off")
\* "X% of Y"
OfForm(toks) == RewritePercent(toks, <<"of">>)

\* a variant of the rules that begins with the plain "X% of Y"
PlainOfFirst(toks) == AsPercentForms(OnOffForms(WhatIsForms(OfForm(toks))))

\* the percentage idioms of _preprocess, each rule applied once to the text
\* the rules before it left; every rule needs a % sign to match
PercentageIdioms(toks) ==
    IF \A i \in 1..Len(toks) : toks[i] \notin PercentToks \cup {"%"} THEN toks
    ELSE OfForm(AsPercentForms(OnOffForms(WhatIsForms(toks))))

DescriptiveWords == {"tax"}
\* /(\d+%)\s+(?:discount|fee|tax|...)\b/gi: the word after a percentage goes
TrailingWords(toks) ==
    IF \A i \in 2..Len(toks) :
          ~(toks[i - 1] \in PercentToks /\ Lower(toks[i]) \in DescriptiveWords)
    THEN toks
    ELSE SelectSeq([i \in 1..Len(toks) |->
                       IF i > 1 /\ toks[i - 1] \in PercentToks
                          /\ Lower(toks[i]) \in DescriptiveWords
                       THEN "" ELSE toks[i]],
                   LAMBDA t : t # "")

\* Calculator._preprocess
_preprocess(toks) ==
    TrailingWords(PercentageIdioms(OperatorWords(CurrencySymbols(StripLabel(toks)))))

EmptyScope == [name \in Idents |-> Undefined]

\* the parentheses open after the first i tokens
Opens(toks, i) ==
    Cardinality({j \in 1..i : toks[j] = "("}) - Cardinality({j \in 1..i : toks[j] = ")"})
\* token i stands outside every pair of parentheses
TopLevel(toks, i) == (\A j \in 1..i : toks[j] # "(") \/ Opens(toks, i) = 0
\* the first token opens a pair that the last token closes
Enclosed(toks) ==
    /\ Len(toks) >= 3 /\ toks[1] = "(" /\ toks[Len(toks)] = ")"
    /\ \A i \in 1..Len(toks) - 1 : Opens(toks, i) > 0
    /\ Opens(toks, Len(toks)) = 0

RECURSIVE EvalExpr(_, _)
\* one operand: a number, a percentage, a defined variable, a number with a
\* unit, or an expression in parentheses
EvalFactor(toks, scope) ==
    IF Len(toks) = 1 /\ toks[1] \in Numerals THEN Ok(Num(NumeralValue(toks[1])))
    ELSE IF toks = <<"-10">> THEN Ok(Num(-10))
    ELSE IF toks = <<"0,5">> THEN Ok(Frac(1, 2))
    ELSE IF Len(toks) = 1 /\ toks[1] \in PercentToks
         THEN Ok(Frac(NumeralValue(PercentNumber(toks[1])), 100))
    ELSE IF Len(toks) = 1 /\ toks[1] \in Idents /\ scope[toks[1]] # Undefined
         THEN Ok(scope[toks[1]])
    ELSE IF Len(toks) = 2 /\ toks[1] \in Numerals /\ toks[2] \in UnitNames
         THEN Ok(UnitQ(NumeralValue(toks[1]), 1, <<toks[2]>>))
    ELSE IF Enclosed(toks) THEN EvalExpr(SubSeq(toks, 2, Len(toks) - 1), scope)
    ELSE Thrown

Last(S) == CHOOSE c \in S : \A c2 \in S : c2 <= c

\* a binary operation on two evaluated operands
Binary(op, l, r) ==
    IF ~l.ok \/ ~r.ok THEN Thrown
    ELSE CASE op = "*" -> MathMultiply(l.v, r.v)
           [] op = "/" -> MathDivide(l.v, r.v)
           [] op = "+" -> MathAdd(l.v, r.v)
           [] op = "-" -> MathSubtract(l.v, r.v)

\* a product: factors joined by * and /, left to right
RECURSIVE EvalTerm(_, _)
EvalTerm(toks, scope) ==
    LET ops == {i \in 2..Len(toks) - 1 : toks[i] \in {"*", "/"} /\ TopLevel(toks, i)} IN
    IF ops = {} THEN EvalFactor(toks, scope)
    ELSE Binary(toks[Last(ops)],
                EvalTerm(SubSeq(toks, 1, Last(ops) - 1), scope),
                EvalFactor(SubSeq(toks, Last(ops) + 1, Len(toks)), scope))

\* the right operand of + or -: "a + X%" adds X% of a
Addend(l, right, scope) ==
    IF Len(right) = 1 /\ right[1] \in PercentToks
    THEN Binary("*", l, EvalFactor(right, scope))
    ELSE EvalTerm(right, scope)

\* l + r and l - r
Sum(op, l, right, scope) == Binary(op, l, Addend(l, right, scope))

\* a sum: terms joined by + and -, left to right
EvalExpr(toks, scope) ==
    LET ops == {i \in 2..Len(toks) - 1 : toks[i] \in {"+", "-"} /\ TopLevel(toks, i)} IN
    IF ops = {} THEN EvalTerm(toks, scope)
    ELSE Sum(toks[Last(ops)], EvalExpr(SubSeq(toks, 1, Last(ops) - 1), scope),
             SubSeq(toks, Last(ops) + 1, Len(toks)), scope)

\* the outcome [ok, v, scope] of a statement whose expression gave r;
\* name = "" when the statement assigns nothing
Assign(name, r, scope) ==
    IF ~r.ok THEN [ok |-> FALSE, v |-> Undefined, scope |-> scope]
    ELSE [ok |-> TRUE, v |-> r.v,
          scope |-> IF name = "" THEN scope ELSE [scope EXCEPT ![name] = r.v]]

\* a statement: "name = expression" assigns in the scope
EvalStatement(toks, scope) ==
    IF Len(toks) >= 3 /\ toks[1] \in Idents /\ toks[2] = "="
    THEN Assign(toks[1], EvalExpr(SubSeq(toks, 3, Len(toks)), scope), scope)
    ELSE Assign("", EvalExpr(toks, scope), scope)

\* the value of a block of statements is a ResultSet
AsResultSet(r) ==
    [ok |-> r.ok, v |-> IF r.ok THEN ResultSet ELSE Undefined, scope |-> r.scope]

\* math.evaluate(text, scope): statements separated by ";" run in order and
\* each assignment is written to the scope as soon as it is evaluated
RECURSIVE MathEvaluate(_, _)
RECURSIVE Block(_, _)
Block(first, more) ==
    IF ~first.ok THEN first
    ELSE IF more = <<>> THEN AsResultSet(first)
    ELSE AsResultSet(MathEvaluate(more, first.scope))

MathEvaluate(toks, scope) ==
    LET semis == {i \in 1..Len(toks) : toks[i] = ";"}
        i == CHOOSE c \in semis : \A c2 \in semis : c <= c2
    IN  IF semis = {} THEN EvalStatement(toks, scope)
        ELSE Block(EvalStatement(SubSeq(toks, 1, i - 1), scope),
                   SubSeq(toks, i + 1, Len(toks)))

(***************************************************************************)
(* One iteration of lines.forEach in Calculator.evaluate.                  *)
(* rs is the running state [runningSum, runningCount, previousResult,      *)
(* hasPreviousResult, scope]; the outcome is [rs, out, branch, result]:    *)
(* the state after the line, the string pushed on results, the way the     *)
(* iteration ended ("raised": an exception left the loop, nothing pushed)  *)
(* and the value the line resolved to (Undefined when it has none).        *)
(***************************************************************************)
Running(sum, count, prev, hasPrev, scope) ==
    [runningSum |-> sum, runningCount |-> count, previousResult |-> prev,
     hasPreviousResult |-> hasPrev, scope |-> scope]

InitialRunning(scope) == Running(Zero, 0, Zero, FALSE, scope)

Outcome(rs, out, branch, result) ==
    [rs |-> rs, out |-> out, branch |-> branch, result |-> result]

\* a variant of the injection in which prev is bound to the running sum
InjectSumAsPrev(rs) ==
    LET avg == IF rs.runningCount > 0
               THEN LET q == MathDivide(rs.runningSum, Num(rs.runningCount))
                    IN  IF q.ok THEN q.v ELSE Zero
               ELSE Zero
    IN  [rs.scope EXCEPT !["sum"] = rs.runningSum,
                         !["total"] = rs.runningSum,
                         !["avg"] = avg,
                         !["mean"] = avg,
                         !["prev"] = rs.runningSum]

\* "Inject dynamic tokens": sum, total, avg, mean, prev
InjectTokens(rs) ==
    LET avg == IF rs.runningCount > 0
               THEN LET q == MathDivide(rs.runningSum, Num(rs.runningCount))
                    IN  IF q.ok THEN q.v ELSE Zero
               ELSE Zero
    IN  [rs.scope EXCEPT !["sum"] = rs.runningSum,
                         !["total"] = rs.runningSum,
                         !["avg"] = avg,
                         !["mean"] = avg,
                         !["prev"] = IF rs.hasPreviousResult THEN rs.previousResult
                                     ELSE Zero]

\* a variant of the test that holds of a bare reference only
isBareReference(toks) ==
    Len(toks) = 1 /\ WordsIn(toks[1]) \cap {"sum", "total", "avg", "mean"} # {}

\* /\b(sum|total|avg|mean)\b/i.test(trimmed)
isInformational(toks) ==
    \E i \in 1..Len(toks) : WordsIn(toks[i]) \cap {"sum", "total", "avg", "mean"} # {}

\* a variant of the update that keeps the sum when the kind of the result
\* is not the kind of the sum
KeepSumOfOtherKind(rs, result) ==
    IF IsFiniteNumber(result) \/ IsUnit(result)
    THEN [rs EXCEPT !.runningSum =
                        IF IsFiniteNumber(result) /\ IsNumber(rs.runningSum)
                        THEN NumAdd(rs.runningSum, result)
                        ELSE IF IsUnit(result) /\ IsUnit(rs.runningSum)
                                /\ MathAdd(rs.runningSum, result).ok
                        THEN MathAdd(rs.runningSum, result).v
                        ELSE IF rs.runningSum = Zero THEN result
                        ELSE rs.runningSum,
                    !.runningCount = rs.runningCount + 1,
                    !.previousResult = result,
                    !.hasPreviousResult = TRUE]
    ELSE rs

\* a variant of the update that keeps the last result in place of the sum
ReplaceRunning(rs, result) ==
    IF IsFiniteNumber(result) \/ IsUnit(result)
    THEN [rs EXCEPT !.runningSum = result,
                    !.runningCount = rs.runningCount + 1,
                    !.previousResult = result,
                    !.hasPreviousResult = TRUE]
    ELSE rs

\* the running-state update for the result of an evaluated line
UpdateRunning(rs, result) ==
    IF IsFiniteNumber(result)
    THEN [rs EXCEPT !.runningSum = IF IsNumber(rs.runningSum)
                                   THEN NumAdd(rs.runningSum, result)
                                   ELSE result,
                    !.runningCount = rs.runningCount + 1,
                    !.previousResult = result,
                    !.hasPreviousResult = TRUE]
    ELSE IF IsUnit(result)
    THEN [rs EXCEPT !.runningSum =
                        IF rs.runningSum = Zero THEN result
                        ELSE IF IsUnit(rs.runningSum)
                        THEN LET s == MathAdd(rs.runningSum, result)
                             IN  IF s.ok THEN s.v ELSE result
                        ELSE result,
                    !.runningCount = rs.runningCount + 1,
                    !.previousResult = result,
                    !.hasPreviousResult = TRUE]
    ELSE rs

\* results.push(this._formatResult(result)), inside the try block
PushResult(updated, result, formatted) ==
    IF formatted.ok THEN Outcome(updated, formatted.s, "evaluated", result)
    ELSE Outcome(updated, Empty, "failed", result)

\* the try block once math.evaluate has given res: update the running
\* state, apply the output format, format and push
AfterEvaluate(rs, res, informational, outputFormat) ==
    IF ~res.ok THEN Outcome([rs EXCEPT !.scope = res.scope], Empty, "failed", Undefined)
    ELSE PushResult(IF informational THEN [rs EXCEPT !.scope = res.scope]
                    ELSE UpdateRunning([rs EXCEPT !.scope = res.scope], res.v),
                    res.v,
                    _formatResult(IF outputFormat # "" /\ IsNumber(res.v)
                                  THEN _formatWithBase(res.v, outputFormat)
                                  ELSE res.v))

\* /\s+in\s+([A-Z]{3})\s*$/i: the code of a line ending in " in CCC", in
\* upper case; "" when the line does not end so
InCurrency(toks) ==
    LET n == Len(toks) IN
    IF n >= 3 /\ Lower(toks[n - 1]) = "in" /\ IsAlpha(toks[n]) /\ TokLen(toks[n]) = 3
    THEN Upper(toks[n]) ELSE ""

\* processed.replace(/\s+in\s+[A-Z]{3}\s*$/i, '')
WithoutInClause(processed) ==
    IF InCurrency(processed) = "" THEN processed
    ELSE SubSeq(processed, 1, Len(processed) - 2)

\* math.unit(value, currency) and Unit.to(currency): [ok, v]; ok = FALSE
\* when the code names no unit or the dimensions differ
AttachOrConvert(v, currency) ==
    IF currency \notin DOMAIN units THEN Thrown
    ELSE IF IsNumber(v)
    THEN Ok(IF IsFiniteNumber(v) THEN UnitQ(v.n, v.d, <<currency>>)
            ELSE Val("unit", v.n, 0, <<currency>>))
    ELSE IF EqualBase(v, UnitQ(1, 1, <<currency>>))
    THEN Ok(ToUnits(v, <<currency>>))
    ELSE Thrown

\* the catch of the currency clause: the expression is evaluated again, in
\* the scope the first evaluation left
EvaluateAgain(withoutInClause, numResult) ==
    MathEvaluate(withoutInClause, numResult.scope)

\* the currency clause once the expression without it gave numResult
AfterNumResult(withoutInClause, currency, numResult) ==
    IF ~numResult.ok THEN EvaluateAgain(withoutInClause, numResult)
    ELSE IF (IsNumber(numResult.v) /\ numResult.v.k # "nan") \/ IsUnit(numResult.v)
    THEN IF AttachOrConvert(numResult.v, currency).ok
         THEN [ok |-> TRUE, v |-> AttachOrConvert(numResult.v, currency).v,
               scope |-> numResult.scope]
         ELSE EvaluateAgain(withoutInClause, numResult)
    ELSE numResult

\* the evaluation of the processed line: the currency clause, or
\* math.evaluate on the whole line
EvaluateProcessed(trimmed, processed, scope) ==
    IF InCurrency(trimmed) # ""
    THEN AfterNumResult(WithoutInClause(processed), InCurrency(trimmed),
                        MathEvaluate(WithoutInClause(processed), scope))
    ELSE MathEvaluate(processed, scope)

\* the try block of the iteration: normalise, evaluate, update, format
EvaluateLine(rs, trimmed, outputFormat) ==
    AfterEvaluate(rs, EvaluateProcessed(trimmed, _preprocess(trimmed), rs.scope),
                  isInformational(trimmed), outputFormat)

\* results.push(this._formatResult(dateResult)), outside the try block
PushDate(rs, dateResult, formatted) ==
    IF formatted.ok THEN Outcome(rs, formatted.s, "date", dateResult)
    ELSE Outcome(rs, Empty, "raised", dateResult)

\* "Try Date Math only if not a format conversion"
DateOrExpression(rs, trimmed, dateResult) ==
    IF dateResult.hit THEN PushDate(rs, dateResult.v, _formatResult(dateResult.v))
    ELSE EvaluateLine(rs, trimmed, "")

\* a variant that resolves dates on the line with its format modifier
DateBeforeFormat(rs, trimmed, outputFormat, t) ==
    IF outputFormat = "" THEN DateOrExpression(rs, trimmed, _evaluateDate(trimmed, t))
    ELSE IF _evaluateDate(trimmed \o <<"in", outputFormat>>, t).hit
    THEN DateOrExpression(rs, trimmed, _evaluateDate(trimmed \o <<"in", outputFormat>>, t))
    ELSE EvaluateLine(rs, trimmed, outputFormat)

\* the iteration after the format modifier is taken off the line
AfterFormatMatch(rs, trimmed, outputFormat, t) ==
    IF outputFormat = "" THEN DateOrExpression(rs, trimmed, _evaluateDate(trimmed, t))
    ELSE EvaluateLine(rs, trimmed, outputFormat)

\* the iteration from "Inject dynamic tokens" on
AfterTimezone(rs, trimmed, t) ==
    AfterFormatMatch([rs EXCEPT !.scope = InjectTokens(rs)],
                     StripFormatSuffix(_removeTrailingResult(trimmed)),
                     FormatSuffix(_removeTrailingResult(trimmed)), t)

\* the timezone branch
TimezoneOrRest(rs, trimmed, t, timezoneResult) ==
    IF timezoneResult.hit
    THEN Outcome(rs, _formatResult(timezoneResult.v).s, "timezone", timezoneResult.v)
    ELSE AfterTimezone(rs, trimmed, t)

\* a variant of the blank-line branch that forgets the previous result too
BlankResetAll(rs) == InitialRunning(rs.scope)

\* the blank-line branch: runningSum = 0; runningCount = 0
BlankReset(rs) == [rs EXCEPT !.runningSum = Zero, !.runningCount = 0]

ProcessLine(rs, line, t) ==
    IF line.toks = <<>>
    THEN Outcome(BlankReset(rs), Empty, "blank", Undefined)
    ELSE IF line.toks[1] = "#" \/ line.toks[1] = "//"
    THEN Outcome(rs, Empty, "comment", Undefined)
    ELSE TimezoneOrRest(rs, line.toks, t, _evaluateTimezone(line.toks, t))

(***************************************************************************)
(* The input caps of Calculator.evaluate.                                  *)
(***************************************************************************)
LineLen(line) == TextLen(line.toks) + line.pad

\* the characters of lines lo..hi, each with the "\n" that ends it
RECURSIVE Chars(_, _, _)
Chars(ls, lo, hi) ==
    IF lo > hi THEN 0
    ELSE IF lo = hi THEN LineLen(ls[lo]) + 1
    ELSE LET mid == (lo + hi) \div 2
         IN  Chars(ls, lo, mid) + Chars(ls, mid + 1, hi)

\* text.length of the lines joined by "\n"
Length(ls) == Chars(ls, 1, Len(ls)) - 1

\* the first r characters of a line
CutLine(line, r) ==
    LET toks == line.toks
        start(i) == SumLen(SubSeq(toks, 1, i - 1)) + (i - 1)
        kept == {i \in 1..Len(toks) : start(i) < r}
    IN  IF r >= TextLen(toks) THEN Padded(toks, r - TextLen(toks))
        ELSE Line([i \in 1..Cardinality(kept) |-> TokPrefix(toks[i], r - start(i))])

\* the most whole lines, "\n" included, in the first MAX_INPUT_LENGTH characters
RECURSIVE WholeLines(_, _, _)
WholeLines(ls, lo, hi) ==
    IF lo = hi THEN lo
    ELSE LET mid == (lo + hi + 1) \div 2
         IN  IF Chars(ls, 1, mid) <= MAX_INPUT_LENGTH
             THEN WholeLines(ls, mid, hi) ELSE WholeLines(ls, lo, mid - 1)

\* text.substring(0, MAX_INPUT_LENGTH).split('\n')
Truncate(ls) ==
    IF Length(ls) <= MAX_INPUT_LENGTH THEN ls
    ELSE LET k == WholeLines(ls, 0, Len(ls) - 1)
         IN  SubSeq(ls, 1, k) \o <<CutLine(ls[k + 1], MAX_INPUT_LENGTH - Chars(ls, 1, k))>>

\* lines.length = MAX_LINES
CapLines(ls) == IF Len(ls) > MAX_LINES THEN SubSeq(ls, 1, MAX_LINES) ELSE ls

\* the lines evaluate iterates over
InputLines(ls) == CapLines(Truncate(ls))

\* a variant that keeps the scope of the call before
KeepScope(scope) == scope

\* this.scope = {}
ResetScope(scope) == EmptyScope

(***************************************************************************)
(* The texts handed to evaluate.  Every text of at most MaxLines lines     *)
(* over one of the vocabularies below, and a few longer texts: the example *)
(* of the test suite and one block mixing the kinds of line.               *)
(***************************************************************************)
BlankLineText == Line(<<>>)
SpacesLineText == Padded(<<>>, 2)
BadDateText == Line(<<"today", "+", "1000000", "years">>)
SquareText == Line(<<"$5", "*", "$2">>)

VRun ==
    {Line(<<"10">>), Line(<<"20">>), BlankLineText, Line(<<"sum">>),
     Line(<<"prev", "+", "1">>)}
VFail ==
    {Line(<<"10">>), Line(<<"garbage!!!">>), SquareText, Line(<<"sum">>),
     Line(<<"prev">>)}
VInfo ==
    {Line(<<"10">>), Line(<<"sum", "+", "1">>), Line(<<"Total:", "100">>),
     Line(<<"total">>), Line(<<"avg">>)}
VFrame ==
    {Line(<<"10">>), Line(<<"#", "note">>), Line(<<"PST", "time">>), Line(<<"today">>),
     Line(<<"prev">>)}
VUnits ==
    {Line(<<"10">>), Line(<<"$5">>), Line(<<"5", "kg">>), Line(<<"sum">>),
     Line(<<"mean">>)}
VScope ==
    {Line(<<"x", "=", "5">>), Line(<<"x">>), Line(<<"x", "=", "1", ";", "zzz">>),
     Line(<<"10", "in", "hex">>), Line(<<"days", "until", "tomorrow">>)}
VEdge ==
    {Line(<<"10">>), BadDateText, Line(<<"//", "note">>), Line(<<"1", "/", "0">>),
     SpacesLineText}

Vocabularies == {VRun, VFail, VInfo, VFrame, VUnits, VScope, VEdge}

TextsOver(V, n) == UNION {[1..k -> V] : k \in 1..n}

\* '10\n20\n\n5\nsum' (tests/calculator.test.js, "should reset sum on empty line")
ExampleTexts ==
    {<<Line(<<"10">>), Line(<<"20">>), BlankLineText, Line(<<"5">>), Line(<<"sum">>)>>}

\* a comment, a timezone query and a date inside one block
FrameText ==
    <<Line(<<"10">>), Line(<<"#", "note">>), Line(<<"PST", "time">>), Line(<<"today">>),
      Line(<<"sum">>)>>

Texts ==
    UNION {TextsOver(V, MaxLines) : V \in Vocabularies} \cup ExampleTexts \cup {FrameText}

(***************************************************************************)
(* Texts at and beyond the caps.                                           *)
(***************************************************************************)
Repeat(line, n) == [i \in 1..n |-> line]

\* one line of every kind, over and over
Cycle ==
    <<Line(<<"10">>), BlankLineText, Line(<<"#", "note">>), Line(<<"PST", "time">>),
      Line(<<"today">>), Line(<<"garbage!!!">>), Line(<<"sum">>)>>

LongTexts ==
    {\* MAX_LINES lines, and one more
     Repeat(Line(<<"10">>), MAX_LINES),
     Repeat(Line(<<"10">>), MAX_LINES + 1),
     [i \in 1..MAX_LINES + 1 |-> Cycle[(i % Len(Cycle)) + 1]],
     \* the line no Date can hold, as the last line kept and the first one dropped
     [i \in 1..MAX_LINES + 1 |-> IF i = MAX_LINES THEN BadDateText ELSE Line(<<"10">>)],
     [i \in 1..MAX_LINES + 1 |-> IF i = MAX_LINES + 1 THEN BadDateText ELSE Line(<<"10">>)],
     \* MAX_LINES + 1 lines of 99 characters: MAX_INPUT_LENGTH ends on a "\n"
     Repeat(Padded(<<"10">>, 97), MAX_LINES + 1)}
    \cup
    \* two lines; the length cap falls from the end of "100" back to the
    \* spaces of the first line
    {<<Padded(<<"5">>, p), Line(<<"100">>)>> :
        p \in MAX_INPUT_LENGTH - 5 .. MAX_INPUT_LENGTH}

(***************************************************************************)
(* Texts of the idioms of a line: a result appended to its expression, an  *)
(* assignment, a format suffix, a currency clause, a percentage phrase.    *)
(***************************************************************************)
\* lines of arithmetic on numbers that assign nothing
PureLines ==
    {Line(<<"10", "+", "10">>), Line(<<"20", "-", "10">>), Line(<<"10", "*", "10">>),
     Line(<<"10", "-", "20">>), Line(<<"1", "/", "2">>), Line(<<"1", "/", "0">>)}

\* the same lines, each with a rendered result written after it
ResultLines ==
    {Line(<<"10", "+", "10", "=", "20">>), Line(<<"20", "-", "10", "=", "10">>),
     Line(<<"10", "*", "10", "=", "100">>), Line(<<"10", "-", "20", "=", "-10">>),
     Line(<<"1", "/", "2", "=", "0,5">>), Line(<<"1", "/", "0", "=", "infinity-sign">>)}

VTrail ==
    {Line(<<"10", "+", "10">>), Line(<<"10", "+", "10", "=", "20">>),
     Line(<<"x", "=", "5">>), Line(<<"x">>), Line(<<"sum", "=", "5">>),
     Line(<<"sum">>)}

VFormat ==
    {Line(<<"64", "in", "oct">>), Line(<<"255", "in", "HEX">>),
     Line(<<"10", "in", "bin">>), Line(<<"today", "in", "hex">>),
     Line(<<"today">>), Line(<<"prev">>)}
VBase ==
    {Line(<<"1", "/", "2", "in", "hex">>), Line(<<"1", "/", "0", "in", "hex">>),
     Line(<<"5", "kg", "in", "bin">>), Line(<<"10", "-", "20", "in", "oct">>),
     Line(<<"0", "/", "0", "in", "bin">>), Line(<<"sum">>)}

VCurrency ==
    {Line(<<"100", "in", "EUR">>), Line(<<"100", "USD", "in", "EUR">>),
     Line(<<"5", "kg", "in", "EUR">>), Line(<<"100", "in", "XYZ">>),
     Line(<<"x", "=", "1", "kg">>),
     Line(<<"x", "=", "x", "+", "1", "kg", "in", "EUR">>)}

\* lines with the percentage idioms, one kind each and some nested
PercentLines ==
    {Line(<<"20%", "of", "what", "is", "30">>), Line(<<"10%", "on", "100">>),
     Line(<<"20%", "off", "100">>), Line(<<"50", "as", "a", "%", "of", "200">>),
     Line(<<"20%", "of", "100">>), Line(<<"10%", "on", "what", "is", "100">>),
     Line(<<"20%", "off", "what", "is", "100">>),
     Line(<<"50", "as", "a", "%", "on", "20">>),
     Line(<<"50", "as", "%", "off", "200">>),
     Line(<<"100", "+", "10%", "tax">>),
     Line(<<"50", "as", "a", "%", "of", "10%", "on", "100">>),
     Line(<<"20%", "of", "what", "is", "10%", "on", "100">>),
     Line(<<"20%", "of", "10%", "of", "100">>)}

IdiomVocabularies == {VTrail, VFormat, VBase, VCurrency}

IdiomTexts ==
    UNION {TextsOver(V, MaxLines) : V \in IdiomVocabularies}
    \cup {<<l>> : l \in PureLines \cup ResultLines \cup PercentLines}
    \cup {<<BadDateText>>}

(***************************************************************************)
(* The currency service (currencyService.js) and the currency units.       *)
(* A rate is a value; a table maps currency codes to rates.                *)
(***************************************************************************)
\* 24 * 60 * 60 * 1000
CACHE_DURATION == 86400000
MAX_RETRIES == 3
RETRY_DELAY == 1000
\* the milliseconds of one tick of the clock (a day)
TickMs == 86400000

\* a table of rates from the rates given for EUR and GBP
Table(eur, gbp) == [c \in {"EUR", "GBP"} |-> IF c = "EUR" THEN eur ELSE gbp]
WithUSD(table) ==
    [c \in {"USD"} \cup DOMAIN table |-> IF c = "USD" THEN Num(1) ELSE table[c]]

\* FALLBACK_RATES, for the currencies the model follows
FALLBACK_RATES == WithUSD(Table(Frac(95, 100), Frac(79, 100)))

\* initBasicCurrencies: createUnit('EUR', {definition: '0.92 USD'}),
\* createUnit('GBP', {definition: '0.79 USD'})
BasicCurrencies ==
    [c \in {"USD", "EUR", "GBP"} |->
        CASE c = "USD" -> [n |-> 1, d |-> 1]
          [] c = "EUR" -> [n |-> 92, d |-> 100]
          [] c = "GBP" -> [n |-> 79, d |-> 100]]

\* what can come back for one request: a body with rates (all valid, as the
\* API sends them with the base USD among them, or with entries that are
\* no rates), a body without rates, a body that is no JSON, an HTTP error
\* status, a network error or timeout
NoResponse == [kind |-> "none", rates |-> <<>>]
LiveResponse == [kind |-> "rates", rates |-> WithUSD(Table(Frac(92, 100), Frac(80, 100)))]
Responses ==
    {LiveResponse,
     [kind |-> "rates", rates |-> Table(Frac(90, 100), Num(-1))],
     [kind |-> "rates", rates |-> Table(PosInf, Frac(75, 100))],
     [kind |-> "rates", rates |-> Table(NaN, Num(0))],
     [kind |-> "format", rates |-> <<>>],
     [kind |-> "json", rates |-> <<>>],
     [kind |-> "http", rates |-> <<>>],
     [kind |-> "network", rates |-> <<>>]}

\* typeof rate === 'number' && rate > 0 && isFinite(rate)
ValidRate(rate) == rate.k = "num" /\ rate.n > 0

\* a variant of the validation that takes every entry of the body
allRates(data) ==
    [c \in {"USD"} \cup DOMAIN data.rates |->
        IF c \in DOMAIN data.rates THEN data.rates[c] ELSE Num(1)]

\* const validRates = { USD: 1 }; and the valid entries of data.rates
validRates(data) ==
    [c \in {"USD"} \cup {x \in DOMAIN data.rates : ValidRate(data.rates[x])} |->
        IF c \in DOMAIN data.rates /\ ValidRate(data.rates[c]) THEN data.rates[c]
        ELSE Num(1)]

\* the attempt ended in the catch: a thrown fetch, !response.ok, or a body
\* without rates
Failed(data) == data.kind # "rates"

\* a variant that waits the same time before every retry
FixedDelay(a) == RETRY_DELAY

\* RETRY_DELAY * (attempt + 1)
RetryDelay(a) == RETRY_DELAY * (a + 1)

NoFetch == -1

\* this.lastFetch && Date.now() - this.lastFetch < CACHE_DURATION
CacheValid(last, t) == last # NoFetch /\ (t - last) * TickMs < CACHE_DURATION

\* a variant of the early returns of fetchRates that always fetches
AlwaysFetch(promise, last, t) == "fetch"

\* the early returns of fetchRates: "share" the promise in flight, "cached"
\* rates, or "fetch"
FetchOrReturn(promise, last, t) ==
    IF promise THEN "share" ELSE IF CacheValid(last, t) THEN "cached" ELSE "fetch"

\* the loop of configureCurrencies: every currency of the table but USD is
\* defined as 1 / rate USD, overriding the unit of that name
Redefined(old, table) ==
    [c \in DOMAIN old \cup DOMAIN table |->
        IF c \in DOMAIN table /\ c # "USD"
        THEN [n |-> table[c].d, d |-> table[c].n]
        ELSE old[c]]

\* the texts evaluated while the rates are fetched: a conversion, a block
\* with every kind of line, and the date no Date can hold
RateTexts ==
    {<<Line(<<"100", "USD", "in", "EUR">>)>>,
     <<Line(<<"10">>), BlankLineText, Line(<<"#", "note">>), Line(<<"PST", "time">>),
       Line(<<"today">>), Line(<<"garbage!!!">>), Line(<<"100", "in", "EUR">>),
       Line(<<"sum">>)>>,
     <<BadDateText>>}

(***************************************************************************)
(* The notes store (store.js, src/unnamed/part_001).                       *)
(* A note is a record [id, content, createdAt, updatedAt].  An id is a     *)
(* pair: <<"stored", i>> for a note found in localStorage, <<"uuid", k>>   *)
(* for the k-th value of crypto.randomUUID(), <<"caller", i>> for an id a  *)
(* caller of saveNote made up; NoId is a missing id.  A content is a       *)
(* sequence of characters, shorter than MAX_NOTE_SIZE.  A time is a count  *)
(* of clock ticks; times below 0 are before the page was loaded.           *)
(* localStorage.setItem succeeds, so that after every call notesCache is   *)
(* what localStorage holds: the variable notes is both.                    *)
(***************************************************************************)
MAX_NOTES == 500

NoId == <<>>
\* no note: null or undefined
NoNote == [none |-> TRUE]
Stored(i) == <<"stored", i>>
Uuid(k) == <<"uuid", k>>
Note(id, content, createdAt, updatedAt) ==
    [id |-> id, content |-> content, createdAt |-> createdAt, updatedAt |-> updatedAt]

\* what a call of the store leaves in the variable call
Call(op, arg, value) == [op |-> op, arg |-> arg, value |-> value]
\* a call returned true or false
Gave(b) == [returned |-> b]

\* notes.findIndex(n => n.id === id), 0 when there is none
findIndex(list, id) ==
    IF \E i \in 1..Len(list) : list[i].id = id
    THEN CHOOSE i \in 1..Len(list) :
            list[i].id = id /\ \A j \in 1..(i - 1) : list[j].id # id
    ELSE 0

\* store.getNoteById(id)
getNoteById(list, id) ==
    IF id # NoId /\ findIndex(list, id) > 0 THEN list[findIndex(list, id)] ELSE NoNote

\* !updatedNote || !updatedNote.id
Invalid(updatedNote) ==
    IF "id" \in DOMAIN updatedNote THEN updatedNote.id = NoId ELSE TRUE

\* typeof updatedNote.updatedAt === 'number' ? updatedNote.updatedAt : Date.now()
Timestamp(updatedNote, t) ==
    IF "updatedAt" \in DOMAIN updatedNote THEN updatedNote.updatedAt ELSE t

\* a variant of saveNote that always adds the note at the front
saveNoteInFront(list, updatedNote, t) ==
    IF Invalid(updatedNote) THEN list
    ELSE <<Note(updatedNote.id, updatedNote.content, Timestamp(updatedNote, t),
                Timestamp(updatedNote, t))>> \o list

\* store.saveNote(updatedNote) at the time t: the list it persists
saveNote(list, updatedNote, t) ==
    IF Invalid(updatedNote) THEN list
    ELSE IF findIndex(list, updatedNote.id) > 0
    THEN [list EXCEPT ![findIndex(list, updatedNote.id)] =
              [@ EXCEPT !.content = updatedNote.content,
                        !.updatedAt = Timestamp(updatedNote, t)]]
    ELSE <<Note(updatedNote.id, updatedNote.content, Timestamp(updatedNote, t),
                Timestamp(updatedNote, t))>> \o list

\* store.deleteNote(id): the list it persists
deleteNote(list, id) == SelectSeq(list, LAMBDA n : n.id # id)

\* [...notes].sort((a, b) => a.updatedAt - b.updatedAt).slice(0, overflow):
\* the positions, among the given ones, of the overflow least recently
\* updated notes; the sort is stable, so of two notes updated at the same
\* time the earlier in the list comes first
RECURSIVE Oldest(_, _, _)
Oldest(list, overflow, among) ==
    IF overflow = 0 \/ among = {} THEN {}
    ELSE LET first == CHOOSE i \in among : \A j \in among :
                          \/ list[i].updatedAt < list[j].updatedAt
                          \/ list[i].updatedAt = list[j].updatedAt /\ i <= j
         IN  {first} \cup Oldest(list, overflow - 1, among \ {first})

\* the notes createNote removes: with MAX_NOTES notes or more, the
\* length - MAX_NOTES + 1 least recently updated
idsToRemove(list) ==
    IF Len(list) >= MAX_NOTES
    THEN {list[i].id : i \in Oldest(list, Len(list) - MAX_NOTES + 1, 1..Len(list))}
    ELSE {}

\* a variant of createNote that removes no note
createNoteUnlimited(list, id, t) == <<Note(id, <<>>, t, t)>> \o list

\* store.createNote() at the time t, randomUUID() being id: the list it
\* persists
createNote(list, id, t) ==
    LET removed == idsToRemove(list)
    IN  <<Note(id, <<>>, t, t)>> \o SelectSeq(list, LAMBDA n : n.id \notin removed)

\* what localStorage may hold when the page is loaded: nothing, two notes
\* (the first of them empty), or MAX_NOTES notes of which the second was
\* updated longest ago
StoredNotes ==
    {<<>>,
     <<Note(Stored(1), <<>>, -1, -1), Note(Stored(2), <<"a">>, -2, -1)>>,
     [i \in 1..MAX_NOTES |->
         Note(Stored(i), <<"n">>, -2, IF i = 2 THEN -2 ELSE -1)]}

\* the notes handed to saveNote at the time t: no note, a note without id,
\* notes without updatedAt that have the id of the first stored note or an
\* id of the caller's, and a note with updatedAt that has the id of the
\* second stored note
SavedNotes(t) ==
    {NoNote}
    \cup {[id |-> id, content |-> <<"a">>] : id \in {NoId, Stored(1), <<"caller", 1>>}}
    \cup {[id |-> Stored(2), content |-> <<"b">>, updatedAt |-> u] : u \in 0..t}

(***************************************************************************)
(* The history store (historyStore.js, src/unnamed/part_004 1044-1245).    *)
(* A snapshot is a record [timestamp, content]; its wordCount is a         *)
(* function of the content and is left out.  A history is a sequence of    *)
(* snapshots, the oldest first.                                            *)
(***************************************************************************)
MAX_SNAPSHOTS == 100
MIN_CHANGE_THRESHOLD == 5

Snapshot(timestamp, content) == [timestamp |-> timestamp, content |-> content]

\* the notes whose histories the model follows
HistoryIds == {Stored(1), Stored(2)}

\* getChangeMagnitude(oldContent, newContent)
getChangeMagnitude(oldContent, newContent) ==
    LET diff == IF Len(newContent) >= Len(oldContent)
                THEN Len(newContent) - Len(oldContent)
                ELSE Len(oldContent) - Len(newContent)
        minLen == IF Len(oldContent) <= Len(newContent)
                  THEN Len(oldContent) ELSE Len(newContent)
        differing == Cardinality({i \in 1..minLen : oldContent[i] # newContent[i]})
    IN  IF oldContent = <<>> THEN Len(newContent)
        ELSE IF newContent = <<>> THEN Len(oldContent)
        ELSE IF diff < MIN_CHANGE_THRESHOLD
        THEN (IF differing < MIN_CHANGE_THRESHOLD THEN differing
              ELSE MIN_CHANGE_THRESHOLD) + diff
        ELSE diff

\* lastSnapshot && getChangeMagnitude(lastSnapshot.content, content) <
\* MIN_CHANGE_THRESHOLD
NotEnoughChange(history, content) ==
    /\ history # <<>>
    /\ getChangeMagnitude(history[Len(history)].content, content) < MIN_CHANGE_THRESHOLD

\* a variant of the pruning that drops the newest snapshots
DropNewest(history) ==
    IF Len(history) > MAX_SNAPSHOTS THEN SubSeq(history, 1, MAX_SNAPSHOTS) ELSE history

\* while (history.length > MAX_SNAPSHOTS) history.shift()
DropOldest(history) ==
    IF Len(history) > MAX_SNAPSHOTS
    THEN SubSeq(history, Len(history) - MAX_SNAPSHOTS + 1, Len(history))
    ELSE history

\* history.slice(-Math.floor(history.length / 2)), for a history of two
\* snapshots or more
NewerHalf(history) ==
    SubSeq(history, Len(history) - (Len(history) \div 2) + 1, Len(history))

\* persistHistory(noteId, history): what the cache and localStorage can
\* hold afterwards.  setItem succeeds (both hold the history), or throws
\* QuotaExceededError (the newer half is tried when the history has more
\* than 10 snapshots), or throws anything else; when nothing is written
\* the cache keeps the array saveSnapshot pushed to (cached) and
\* localStorage what it held (stored).
RECURSIVE persistHistory(_, _, _)
persistHistory(cached, stored, history) ==
    {[cache |-> history, stored |-> history], [cache |-> cached, stored |-> stored]}
    \cup IF Len(history) > 10
         THEN persistHistory(cached, stored, NewerHalf(history))
         ELSE {}

\* a history of the given length left by an earlier session, in which
\* consecutive snapshots differ by MIN_CHANGE_THRESHOLD characters or more
HistoryOf(length) ==
    [i \in 1..length |->
        Snapshot(i - length - 1, IF i % 2 = 0 THEN <<>> ELSE <<"a", "b", "c", "d", "e">>)]

\* what localStorage may hold of the histories when the page is loaded
StoredHistories ==
    {[id \in HistoryIds |-> <<>>],
     [id \in HistoryIds |-> IF id = Stored(1) THEN HistoryOf(11)
                            ELSE HistoryOf(MAX_SNAPSHOTS)],
     [id \in HistoryIds |-> IF id = Stored(1) THEN HistoryOf(MAX_SNAPSHOTS - 1)
                            ELSE HistoryOf(2)]}

\* the contents handed to saveSnapshot and to the Time Machine
SnapshotContents ==
    {<<>>, <<"a", "b", "c", "d", "e">>, <<"a", "b", "c", "d", "e", "f">>,
     <<"v", "w", "x", "y", "z">>}

(***************************************************************************)
(* The Time Machine (timeMachine.js, src/unnamed/part_004 680-1042).       *)
(***************************************************************************)
NoContent == <<"null">>

\* resetState(), with isOpen = false
ClosedMachine ==
    [isOpen |-> FALSE, currentNoteId |-> NoId, currentIndex |-> -1,
     snapshots |-> <<>>, originalContent |-> NoContent]

\* open(noteId, currentContent) at the time t, history being
\* historyStore.getHistory(noteId): a snapshot of the current content is
\* added unless the last snapshot holds it
OpenMachine(noteId, currentContent, history, t) ==
    LET shown == IF history = <<>> \/ history[Len(history)].content # currentContent
                 THEN Append(history, Snapshot(t, currentContent))
                 ELSE history
    IN  [isOpen |-> TRUE, currentNoteId |-> noteId, currentIndex |-> Len(shown) - 1,
         snapshots |-> shown, originalContent |-> currentContent]

\* index < 0 || index >= snapshots.length
OutOfRange(machine, index) == index < 0 \/ index >= Len(machine.snapshots)

\* a variant of the detail of the event of close(): the content shown
ShownContent(machine) ==
    IF OutOfRange(machine, machine.currentIndex) THEN NoContent
    ELSE machine.snapshots[machine.currentIndex + 1].content

\* the detail of the event timemachine:close
CloseDetail(machine) == machine.originalContent

\* the arguments of onRestoreCallback
RestoreArguments(machine) ==
    [noteId |-> machine.currentNoteId,
     content |-> machine.snapshots[machine.currentIndex + 1].content]

(***************************************************************************)
(* State.                                                                  *)
(*   pc                    where the Calculator is: "idle" (no call),      *)
(*                         "entered" (evaluate has begun, the text is not  *)
(*                         split yet), "loop" (inside lines.forEach),      *)
(*                         "done" (the call returned results), "raised"    *)
(*                         (an exception left evaluate)                    *)
(*   isString, text        the argument of the call                        *)
(*   lines, idx, results   the locals of evaluate; idx lines are processed *)
(*   runningSum, runningCount, previousResult, hasPreviousResult           *)
(*   scope                 this.scope                                      *)
(*   now                   the clock                                       *)
(*   currenciesConfigured, configurePromise   the module's currency state  *)
(*   leftover              the last call left the variable x in this.scope *)
(*   units                 the currency units of mathjs (declared above)   *)
(*   rates, lastFetch, fetchPromise   the fields of the CurrencyService;   *)
(*                         lastFetch = NoFetch is null, fetchPromise is    *)
(*                         TRUE while a promise is stored                  *)
(*   stage, attempt, response, timer   where the fetch that fetchRates     *)
(*                         started is: "none" (no fetch), "request" (it    *)
(*                         awaits the answer to attempt number attempt),   *)
(*                         "delay" (it awaits the retry timer), "settled"  *)
(*                         (its promise is resolved; the continuation of   *)
(*                         fetchRates is queued), "released" (fetchPromise *)
(*                         is cleared; the continuation of the caller is   *)
(*                         queued)                                         *)
(*   outstanding           the network requests sent and not yet answered  *)
(*   sharers               the calls that were handed the promise of a     *)
(*                         fetch already in flight                         *)
(*   currencyRetryTimeout  TRUE while the timer of scheduleCurrencyRetry   *)
(*                         is pending.  Only the catch of                  *)
(*                         configureCurrencies sets it, and nothing        *)
(*                         reaches that catch: fetchRates resolves with    *)
(*                         the fallback table when every attempt failed,   *)
(*                         and each createUnit has a try of its own        *)
(*   notes, loaded         the notes of the store (the entry of            *)
(*                         localStorage, and notesCache once loaded);      *)
(*                         loaded is FALSE while notesCache is null        *)
(*   call                  the last call of the notes store, the history   *)
(*                         store or the Time Machine: its name, its        *)
(*                         argument and what it returned or emitted        *)
(*   historyCache          historyCache: for each note whether it has an   *)
(*                         entry, and the entry                            *)
(*   historyStorage        the histories in localStorage                   *)
(*   taken                 the snapshots taken since the page was loaded   *)
(*   timeMachine           isOpen, currentNoteId, currentIndex, snapshots  *)
(*                         and originalContent of the Time Machine         *)
(*   app                   the state of app.js: activeNoteId,              *)
(*                         spotlightIndex, isSpotlightOpen, filteredNotes  *)
(*                         (the ids of the notes listed), openTabs; with   *)
(*                         query (spotlightInput.value), editor            *)
(*                         (editor.value) and pending (the arguments of    *)
(*                         the debouncedSave whose timer is running, or    *)
(*                         NoNote)                                         *)
(*   edited                the note and the content of the last input      *)
(*                         event of the editor                             *)
(*   uuids                 the ids crypto.randomUUID() has handed out      *)
(***************************************************************************)
VARIABLES pc, isString, text, lines, idx, results,
          runningSum, runningCount, previousResult, hasPreviousResult,
          scope, now, currenciesConfigured, configurePromise, leftover,
          rates, lastFetch, fetchPromise, stage, attempt, response, timer,
          outstanding, sharers, currencyRetryTimeout,
          notes, loaded, call, uuids,
          historyCache, historyStorage, taken, timeMachine, app, edited

service == <<units, rates, lastFetch, fetchPromise, stage, attempt, response,
             timer, outstanding, sharers>>

vars == <<pc, isString, text, lines, idx, results,
          runningSum, runningCount, previousResult, hasPreviousResult,
          scope, now, currenciesConfigured, configurePromise, leftover, service,
          currencyRetryTimeout, notes, loaded, call, uuids,
          historyCache, historyStorage, taken, timeMachine, app, edited>>

\* the state that no step of evaluate and no step of a fetch writes
storage == <<notes, loaded, call, uuids>>
histories == <<historyCache, historyStorage, taken>>
outside == <<currencyRetryTimeout, storage, histories, timeMachine, app, edited>>

locals == <<isString, text, lines, idx, results,
            runningSum, runningCount, previousResult, hasPreviousResult>>

module == <<now, currenciesConfigured, configurePromise, service>>

\* the module is loaded (initBasicCurrencies, new CurrencyService()) and
\* new Calculator() has run: this.scope = {}; this.ready =
\* configureCurrencies(), which has called fetchRates and sent the first
\* request
Init ==
    /\ pc = "idle"
    /\ isString = TRUE
    /\ text = <<>>
    /\ lines = <<>>
    /\ idx = 0
    /\ results = <<>>
    /\ runningSum = Zero
    /\ runningCount = 0
    /\ previousResult = Zero
    /\ hasPreviousResult = FALSE
    /\ scope = EmptyScope
    /\ now = 0
    /\ currenciesConfigured = FALSE
    /\ configurePromise = TRUE
    /\ leftover = FALSE
    /\ units = BasicCurrencies
    /\ rates = FALLBACK_RATES
    /\ lastFetch = NoFetch
    /\ fetchPromise = TRUE
    /\ stage = "request"
    /\ attempt = 0
    /\ response = NoResponse
    /\ timer = 0
    /\ outstanding = 1
    /\ sharers = 0
    /\ currencyRetryTimeout = FALSE
    /\ notes = <<>>
    /\ loaded = FALSE
    /\ call = Call("none", NoNote, NoNote)
    /\ uuids = 0
    /\ historyCache = [id \in HistoryIds |-> [has |-> FALSE, history |-> <<>>]]
    /\ historyStorage = [id \in HistoryIds |-> <<>>]
    /\ taken = 0
    /\ timeMachine = ClosedMachine
    /\ app = [activeNoteId |-> NoId, spotlightIndex |-> 0, isSpotlightOpen |-> FALSE,
              filteredNotes |-> <<>>, openTabs |-> <<>>, query |-> <<>>,
              editor |-> <<>>, pending |-> NoNote]
    /\ edited = NoNote

\* no continuation is queued: the event loop may run the next task
Quiet == stage \notin {"settled", "released"}

\* the running state the loop holds
rs ==
    Running(runningSum, runningCount, previousResult, hasPreviousResult, scope)

\* evaluate(text) is entered with a string: the statements of its prelude
\* that do not read the text (configureCurrencies when the currencies are
\* not configured, results = [], this.scope = {}, the running state).
\* They commute with the statements that cut and split the text, and no
\* other step can come between the two halves of the prelude.
Enter ==
    /\ pc = "idle"
    /\ Quiet
    /\ pc' = "entered"
    /\ isString' = TRUE
    /\ configurePromise' = (IF currenciesConfigured THEN configurePromise ELSE TRUE)
    /\ results' = <<>>
    /\ scope' = ResetScope(scope)
    /\ runningSum' = Zero
    /\ runningCount' = 0
    /\ previousResult' = Zero
    /\ hasPreviousResult' = FALSE
    /\ UNCHANGED <<text, lines, idx, now, currenciesConfigured, leftover, service>>
    /\ UNCHANGED outside

\* the statements of the prelude that read the text t: the length cap,
\* split('\n') and the line cap
Split(t) ==
    /\ pc' = "loop"
    /\ text' = t
    /\ lines' = InputLines(t)
    /\ idx' = 0
    /\ UNCHANGED <<isString, results, runningSum, runningCount, previousResult,
                   hasPreviousResult, scope, module, leftover>>

SplitText ==
    /\ pc = "entered"
    /\ \E t \in Texts : Split(t)
    /\ UNCHANGED outside

SplitLongText ==
    /\ pc = "entered"
    /\ \E t \in LongTexts : Split(t)
    /\ UNCHANGED outside

SplitRateText ==
    /\ pc = "entered"
    /\ \E t \in RateTexts : Split(t)
    /\ UNCHANGED outside

SplitIdiomText ==
    /\ pc = "entered"
    /\ \E t \in IdiomTexts : Split(t)
    /\ UNCHANGED outside

\* evaluate(text) with typeof text !== 'string'
EvaluateNonString ==
    /\ pc = "idle"
    /\ pc' = "done"
    /\ isString' = FALSE
    /\ results' = <<>>
    /\ UNCHANGED <<text, lines, idx, runningSum, runningCount, previousResult,
                   hasPreviousResult, scope, module, leftover>>
    /\ UNCHANGED outside

\* the callback pushes o.out and the loop goes on with the state o.rs
Push(o) ==
    /\ pc' = "loop"
    /\ idx' = idx + 1
    /\ results' = Append(results, o.out)
    /\ runningSum' = o.rs.runningSum
    /\ runningCount' = o.rs.runningCount
    /\ previousResult' = o.rs.previousResult
    /\ hasPreviousResult' = o.rs.hasPreviousResult
    /\ scope' = o.rs.scope

\* the callback throws: nothing is pushed, the exception leaves forEach
Throw(o) ==
    /\ pc' = "raised"
    /\ scope' = o.rs.scope
    /\ UNCHANGED <<idx, results, runningSum, runningCount, previousResult,
                   hasPreviousResult>>

\* the outcome of the iteration on the next line
outcome == ProcessLine(rs, lines[idx + 1], now)

\* one iteration of lines.forEach; the disjuncts are the ways out of the
\* callback (the early returns, the try block, its catch, an exception)
Iterate ==
    /\ pc = "loop"
    /\ idx < Len(lines)
    /\ \E o \in {outcome} :
        \/ o.branch = "blank" /\ Push(o)
        \/ o.branch = "comment" /\ Push(o)
        \/ o.branch = "timezone" /\ Push(o)
        \/ o.branch = "date" /\ Push(o)
        \/ o.branch = "raised" /\ Throw(o)
        \/ o.branch = "evaluated" /\ Push(o)
        \/ o.branch = "failed" /\ Push(o)
    /\ UNCHANGED <<isString, text, lines, module, leftover>>
    /\ UNCHANGED outside

\* return results
Return ==
    /\ pc = "loop"
    /\ idx = Len(lines)
    /\ pc' = "done"
    /\ UNCHANGED <<locals, scope, module, leftover>>
    /\ UNCHANGED outside

\* the caller takes the list (calculateAndRender); the locals are gone
Complete ==
    /\ pc = "done"
    /\ pc' = "idle"
    /\ isString' = TRUE
    /\ text' = <<>>
    /\ lines' = <<>>
    /\ idx' = 0
    /\ results' = <<>>
    /\ runningSum' = Zero
    /\ runningCount' = 0
    /\ previousResult' = Zero
    /\ hasPreviousResult' = FALSE
    /\ leftover' = (scope["x"] # Undefined)
    /\ UNCHANGED <<scope, module>>
    /\ UNCHANGED outside

\* the exception leaves evaluate and its caller
Propagate ==
    /\ pc = "raised"
    /\ pc' = "idle"
    /\ isString' = TRUE
    /\ text' = <<>>
    /\ lines' = <<>>
    /\ idx' = 0
    /\ results' = <<>>
    /\ runningSum' = Zero
    /\ runningCount' = 0
    /\ previousResult' = Zero
    /\ hasPreviousResult' = FALSE
    /\ leftover' = (scope["x"] # Undefined)
    /\ UNCHANGED <<scope, module>>
    /\ UNCHANGED outside

\* time passes between calls
Tick ==
    /\ pc = "idle"
    /\ now < MaxClock
    /\ now' = now + 1
    /\ UNCHANGED <<pc, locals, scope, currenciesConfigured, configurePromise, leftover,
                   service>>
    /\ UNCHANGED outside

\* the pending configureCurrencies() settles in one turn: the first
\* request is answered by the live table, fetchRates stores it and clears
\* its promise, and the continuation of configureCurrencies redefines the
\* units (the steps Respond, Release and Configure below, run together)
ConfigureDone ==
    /\ pc = "idle"
    /\ configurePromise
    /\ stage = "request"
    /\ attempt = 0
    /\ currenciesConfigured' = TRUE
    /\ configurePromise' = FALSE
    /\ rates' = validRates(LiveResponse)
    /\ lastFetch' = now
    /\ fetchPromise' = FALSE
    /\ stage' = "none"
    /\ response' = LiveResponse
    /\ outstanding' = outstanding - 1
    /\ sharers' = 0
    /\ units' = Redefined(units, validRates(LiveResponse))
    /\ UNCHANGED <<pc, locals, scope, now, leftover, attempt, timer>>
    /\ UNCHANGED outside

\* this.fetchPromise = (async () => {...})(): the fetch begins and runs up
\* to its first request
StartFetch ==
    /\ fetchPromise' = TRUE
    /\ stage' = "request"
    /\ attempt' = 0
    /\ outstanding' = outstanding + 1
    /\ UNCHANGED <<units, rates, lastFetch, response, timer, sharers>>

\* a caller other than the Calculator calls currencyService.fetchRates()
FetchRates ==
    /\ pc = "idle"
    /\ Quiet
    /\ \/ /\ FetchOrReturn(fetchPromise, lastFetch, now) = "share"
          /\ sharers < MaxSharers
          /\ sharers' = sharers + 1
          /\ UNCHANGED <<units, rates, lastFetch, fetchPromise, stage, attempt,
                         response, timer, outstanding>>
       \/ /\ FetchOrReturn(fetchPromise, lastFetch, now) = "cached"
          /\ UNCHANGED service
       \/ /\ FetchOrReturn(fetchPromise, lastFetch, now) = "fetch"
          /\ StartFetch
    /\ UNCHANGED <<pc, locals, scope, leftover, now, currenciesConfigured,
                   configurePromise>>
    /\ UNCHANGED outside

\* the answer to the request arrives and the loop of the fetch runs on: a
\* body with rates is validated and stored; anything else is caught, and
\* the fetch waits before the next attempt or, after the last one, stores
\* the fallback table
Respond ==
    /\ pc = "idle"
    /\ Quiet
    /\ stage = "request"
    /\ \E data \in Responses :
        /\ response' = data
        /\ outstanding' = outstanding - 1
        /\ \/ /\ ~Failed(data)
              /\ rates' = validRates(data)
              /\ lastFetch' = now
              /\ stage' = "settled"
              /\ UNCHANGED <<attempt, timer>>
           \/ /\ Failed(data)
              /\ attempt < MAX_RETRIES - 1
              /\ timer' = RetryDelay(attempt)
              /\ stage' = "delay"
              /\ UNCHANGED <<rates, lastFetch, attempt>>
           \/ /\ Failed(data)
              /\ attempt >= MAX_RETRIES - 1
              /\ rates' = FALLBACK_RATES
              /\ stage' = "settled"
              /\ UNCHANGED <<lastFetch, attempt, timer>>
    /\ UNCHANGED <<pc, locals, scope, leftover, now, currenciesConfigured,
                   configurePromise, units, fetchPromise, sharers>>
    /\ UNCHANGED outside

\* the retry timer fires: attempt++ and the next request is sent
Wake ==
    /\ pc = "idle"
    /\ Quiet
    /\ stage = "delay"
    /\ attempt' = attempt + 1
    /\ stage' = "request"
    /\ timer' = 0
    /\ outstanding' = outstanding + 1
    /\ UNCHANGED <<pc, locals, scope, leftover, now, currenciesConfigured,
                   configurePromise, units, rates, lastFetch, fetchPromise,
                   response, sharers>>
    /\ UNCHANGED outside

\* fetchRates resumes behind "await this.fetchPromise": finally
\* { this.fetchPromise = null }
Release ==
    /\ stage = "settled"
    /\ stage' = "released"
    /\ fetchPromise' = FALSE
    /\ sharers' = 0
    /\ UNCHANGED <<pc, locals, scope, leftover, now, currenciesConfigured,
                   configurePromise, units, rates, lastFetch, attempt, response,
                   timer, outstanding>>
    /\ UNCHANGED outside

\* the caller of fetchRates resumes: configureCurrencies redefines the
\* units from getRates() and sets currenciesConfigured; any other caller
\* just has its table
ConfigureUnits ==
    /\ stage = "released"
    /\ stage' = "none"
    /\ \/ /\ configurePromise
          /\ units' = Redefined(units, rates)
          /\ currenciesConfigured' = TRUE
          /\ configurePromise' = FALSE
       \/ /\ ~configurePromise
          /\ UNCHANGED <<units, currenciesConfigured, configurePromise>>
    /\ UNCHANGED <<pc, locals, scope, leftover, now, rates, lastFetch, fetchPromise,
                   attempt, response, timer, outstanding, sharers>>
    /\ UNCHANGED outside

(***************************************************************************)
(* The calls of the notes store.                                           *)
(***************************************************************************)
calculator == <<pc, isString, text, lines, idx, results, runningSum, runningCount,
                previousResult, hasPreviousResult, scope, currenciesConfigured,
                configurePromise, leftover, service, currencyRetryTimeout>>

\* before the page reads its notes: an earlier session has left notes in
\* localStorage
EarlierSession ==
    /\ ~loaded
    /\ call.op = "none"
    /\ notes = <<>>
    /\ notes' \in StoredNotes \ {<<>>}
    /\ UNCHANGED <<calculator, now, loaded, call, uuids>>
    /\ UNCHANGED <<histories, timeMachine>>
    /\ UNCHANGED <<app, edited>>

\* the same, the earlier session having left a few notes
EarlierFewNotes ==
    /\ ~loaded
    /\ call.op = "none"
    /\ notes = <<>>
    /\ notes' \in {st \in StoredNotes : st # <<>> /\ Len(st) < MAX_NOTES}
    /\ UNCHANGED <<calculator, now, loaded, call, uuids>>
    /\ UNCHANGED <<histories, timeMachine>>
    /\ UNCHANGED <<app, edited>>

\* store.createNote()
CreateNote ==
    /\ uuids < MaxCreated
    /\ uuids' = uuids + 1
    /\ loaded' = TRUE
    /\ notes' = createNote(notes, Uuid(uuids + 1), now)
    /\ call' = Call("createNote", NoNote, Note(Uuid(uuids + 1), <<>>, now, now))
    /\ UNCHANGED <<calculator, now>>
    /\ UNCHANGED <<histories, timeMachine>>
    /\ UNCHANGED <<app, edited>>

\* store.saveNote(updatedNote)
SaveNote ==
    /\ \E updatedNote \in SavedNotes(now) :
        IF Invalid(updatedNote)
        THEN /\ call' = Call("saveNote", updatedNote, NoNote)
             /\ UNCHANGED <<notes, loaded>>
        ELSE /\ loaded' = TRUE
             /\ notes' = saveNote(notes, updatedNote, now)
             /\ call' = Call("saveNote", updatedNote, getNoteById(notes', updatedNote.id))
    /\ UNCHANGED <<calculator, now, uuids>>
    /\ UNCHANGED <<histories, timeMachine>>
    /\ UNCHANGED <<app, edited>>

\* store.deleteNote(id)
DeleteNote ==
    /\ loaded' = TRUE
    /\ \E id \in {Stored(1), Uuid(1)} :
        /\ notes' = deleteNote(notes, id)
        /\ call' = Call("deleteNote", [id |-> id], NoNote)
    /\ UNCHANGED <<calculator, now, uuids>>
    /\ UNCHANGED <<histories, timeMachine>>
    /\ UNCHANGED <<app, edited>>

(***************************************************************************)
(* The calls of the history store and of the Time Machine.                 *)
(***************************************************************************)
\* loadHistory(noteId): the entry of the cache, or what localStorage holds
loadHistory(noteId) ==
    IF historyCache[noteId].has THEN historyCache[noteId].history
    ELSE historyStorage[noteId]

\* before the page reads a history: an earlier session has left
\* histories in localStorage
EarlierHistories ==
    /\ call.op = "none"
    /\ historyStorage = [id \in HistoryIds |-> <<>>]
    /\ historyStorage' \in StoredHistories \ {historyStorage}
    /\ UNCHANGED <<calculator, now, notes, loaded, call, uuids, historyCache, taken,
                   timeMachine>>
    /\ UNCHANGED <<app, edited>>

\* historyStore.saveSnapshot(noteId, content)
SaveSnapshot ==
    /\ \E noteId \in {NoId} \cup HistoryIds, content \in SnapshotContents :
        IF noteId = NoId
        THEN /\ call' = Call("saveSnapshot", [noteId |-> noteId, content |-> content], Gave(FALSE))
             /\ UNCHANGED histories
        ELSE IF NotEnoughChange(loadHistory(noteId), content)
        THEN /\ call' = Call("saveSnapshot", [noteId |-> noteId, content |-> content], Gave(FALSE))
             /\ historyCache' = [historyCache EXCEPT ![noteId] =
                                    [has |-> TRUE, history |-> loadHistory(noteId)]]
             /\ UNCHANGED <<historyStorage, taken>>
        ELSE /\ taken < MaxTaken
             /\ taken' = taken + 1
             /\ call' = Call("saveSnapshot", [noteId |-> noteId, content |-> content], Gave(TRUE))
             /\ \E kept \in persistHistory(
                        DropOldest(Append(loadHistory(noteId), Snapshot(now, content))),
                        historyStorage[noteId],
                        DropOldest(Append(loadHistory(noteId), Snapshot(now, content)))) :
                   /\ historyCache' = [historyCache EXCEPT ![noteId] =
                                          [has |-> TRUE, history |-> kept.cache]]
                   /\ historyStorage' = [historyStorage EXCEPT ![noteId] = kept.stored]
    /\ UNCHANGED <<calculator, now, notes, loaded, uuids, timeMachine>>
    /\ UNCHANGED <<app, edited>>

\* timeMachine.open(noteId, currentContent)
Open ==
    /\ \E noteId \in {NoId} \cup HistoryIds, currentContent \in SnapshotContents :
        IF noteId = NoId
        THEN /\ call' = Call("open", [noteId |-> noteId, content |-> currentContent], Gave(FALSE))
             /\ UNCHANGED <<timeMachine, historyCache>>
        ELSE /\ call' = Call("open", [noteId |-> noteId, content |-> currentContent], Gave(TRUE))
             /\ historyCache' = [historyCache EXCEPT ![noteId] =
                                    [has |-> TRUE, history |-> loadHistory(noteId)]]
             /\ timeMachine' = OpenMachine(noteId, currentContent, loadHistory(noteId), now)
    /\ UNCHANGED <<calculator, now, notes, loaded, uuids, historyStorage, taken>>
    /\ UNCHANGED <<app, edited>>

\* timeMachine.navigateTo(index), the slider and the arrow keys:
\* previewSnapshot(index)
Preview ==
    /\ \E index \in {-1, 0, Len(timeMachine.snapshots) - 2, Len(timeMachine.snapshots)} :
        /\ call' = Call("navigateTo", [index |-> index], NoNote)
        /\ timeMachine' = IF OutOfRange(timeMachine, index) THEN timeMachine
                          ELSE [timeMachine EXCEPT !.currentIndex = index]
    /\ UNCHANGED <<calculator, now, notes, loaded, uuids, histories>>
    /\ UNCHANGED <<app, edited>>

\* timeMachine.close(): the event timemachine:close, then resetState()
Close ==
    /\ IF timeMachine.isOpen
       THEN /\ call' = Call("close", NoNote, [event |-> CloseDetail(timeMachine)])
            /\ timeMachine' = ClosedMachine
       ELSE /\ call' = Call("close", NoNote, NoNote)
            /\ UNCHANGED timeMachine
    /\ UNCHANGED <<calculator, now, notes, loaded, uuids, histories>>
    /\ UNCHANGED <<app, edited>>

\* timeMachine.restore(): onRestoreCallback(currentNoteId,
\* snapshot.content), then resetState()
Restore ==
    /\ IF timeMachine.isOpen /\ ~OutOfRange(timeMachine, timeMachine.currentIndex)
       THEN /\ call' = Call("restore", NoNote, [callback |-> RestoreArguments(timeMachine)])
            /\ timeMachine' = ClosedMachine
       ELSE /\ call' = Call("restore", NoNote, NoNote)
            /\ UNCHANGED timeMachine
    /\ UNCHANGED <<calculator, now, notes, loaded, uuids, histories>>
    /\ UNCHANGED <<app, edited>>

(***************************************************************************)
(* The app (app.js, src/unnamed/part_004 1-676).  Its functions are        *)
(* operators on a world w: the fields of app with the notes of the store   *)
(* and the count of ids handed out.  The clock stands still while a        *)
(* handler runs.                                                           *)
(***************************************************************************)
World ==
    [activeNoteId |-> app.activeNoteId, spotlightIndex |-> app.spotlightIndex,
     isSpotlightOpen |-> app.isSpotlightOpen, filteredNotes |-> app.filteredNotes,
     openTabs |-> app.openTabs, query |-> app.query, editor |-> app.editor,
     pending |-> app.pending, notes |-> notes, uuids |-> uuids]

\* the handler leaves the world w
Leaves(w) ==
    /\ w.uuids <= MaxCreated
    /\ app' = [activeNoteId |-> w.activeNoteId, spotlightIndex |-> w.spotlightIndex,
               isSpotlightOpen |-> w.isSpotlightOpen, filteredNotes |-> w.filteredNotes,
               openTabs |-> w.openTabs, query |-> w.query, editor |-> w.editor,
               pending |-> w.pending]
    /\ notes' = w.notes
    /\ uuids' = w.uuids
    /\ loaded' = TRUE
    /\ UNCHANGED <<calculator, now, call, histories, timeMachine>>

\* !n.content || n.content.trim() === ''
IsEmpty(content) == content = <<>>

\* content.toLowerCase().includes(query)
Includes(content, query) ==
    \E i \in 1..(Len(content) - Len(query) + 1) :
        SubSeq(content, i, i + Len(query) - 1) = query

\* openTabs.indexOf(id), 0 when it is not there
indexOf(tabs, id) ==
    IF \E i \in 1..Len(tabs) : tabs[i] = id
    THEN CHOOSE i \in 1..Len(tabs) : tabs[i] = id /\ \A j \in 1..(i - 1) : tabs[j] # id
    ELSE 0

\* persistNoteContent(noteId, content, timestamp)
persistNoteContent(w, noteId, content, timestamp) ==
    IF noteId = NoId \/ getNoteById(w.notes, noteId) = NoNote THEN w
    ELSE [w EXCEPT !.notes = saveNote(@, [id |-> noteId, content |-> content,
                                          updatedAt |-> timestamp], now)]

\* flushPendingEditorWork()
flushPendingEditorWork(w) ==
    IF w.activeNoteId = NoId THEN w
    ELSE persistNoteContent([w EXCEPT !.pending = NoNote], w.activeNoteId, w.editor, now)

\* selectNote(id): the pending work is flushed when another note was
\* active and cancelled otherwise; ui.updateEditor(note) puts the stored
\* content of the note, or '' when there is no such note, into the editor
selectNote(w, id) ==
    LET flushed == IF w.activeNoteId # NoId /\ w.activeNoteId # id
                   THEN flushPendingEditorWork(w)
                   ELSE [w EXCEPT !.pending = NoNote]
        note == getNoteById(flushed.notes, id)
    IN  [flushed EXCEPT !.activeNoteId = id,
                        !.editor = IF note = NoNote THEN <<>> ELSE note.content]

\* openTab(id)
openTab(w, id) ==
    selectNote([w EXCEPT !.openTabs = IF indexOf(@, id) > 0 THEN @ ELSE Append(@, id)], id)

\* closeSpotlight()
closeSpotlight(w) == [w EXCEPT !.isSpotlightOpen = FALSE]

\* if (spotlightIndex >= filteredNotes.length)
\*     spotlightIndex = Math.max(0, filteredNotes.length - 1)
Clamp(index, length) ==
    IF index >= length THEN (IF length > 0 THEN length - 1 ELSE 0) ELSE index

\* renderSpotlight()
renderSpotlight(w) ==
    LET listed == SelectSeq(w.notes, LAMBDA n :
                      ~IsEmpty(n.content) /\ Includes(n.content, w.query))
    IN  [w EXCEPT !.filteredNotes = [i \in 1..Len(listed) |-> listed[i].id],
                  !.spotlightIndex = Clamp(@, Len(listed))]

\* openSpotlight()
openSpotlight(w) == renderSpotlight([w EXCEPT !.isSpotlightOpen = TRUE])

\* createNewNote(): the first empty note of the store is opened, and a
\* note is created only when there is none
createNewNote(w) ==
    IF \E i \in 1..Len(w.notes) : IsEmpty(w.notes[i].content)
    THEN openTab(closeSpotlight(w),
                 w.notes[CHOOSE i \in 1..Len(w.notes) :
                            /\ IsEmpty(w.notes[i].content)
                            /\ \A j \in 1..(i - 1) : ~IsEmpty(w.notes[j].content)].id)
    ELSE openTab(closeSpotlight([w EXCEPT !.notes = createNote(@, Uuid(w.uuids + 1), now),
                                          !.uuids = @ + 1]),
                 Uuid(w.uuids + 1))

\* the tabs without the one at the index
Spliced(tabs, index) == SubSeq(tabs, 1, index - 1) \o SubSeq(tabs, index + 1, Len(tabs))

\* closeTab(id)
closeTab(w, id) ==
    LET index == indexOf(w.openTabs, id)
        flushed == IF w.activeNoteId = id THEN flushPendingEditorWork(w) ELSE w
        closed == [flushed EXCEPT !.openTabs = Spliced(@, index)]
    IN  IF index = 0 THEN w
        ELSE IF w.activeNoteId # id THEN closed
        ELSE IF closed.openTabs # <<>>
        THEN selectNote(closed, closed.openTabs[IF index > 1 THEN index - 1 ELSE 1])
        ELSE createNewNote(closed)

\* deleteNoteFromManager(noteId)
deleteNoteFromManager(w, noteId) ==
    LET index == indexOf(w.openTabs, noteId)
        deleted == [w EXCEPT !.notes = deleteNote(@, noteId),
                             !.openTabs = IF index > 0 THEN Spliced(@, index) ELSE @]
    IN  IF w.activeNoteId # noteId THEN deleted
        ELSE IF deleted.openTabs # <<>> THEN selectNote(deleted, deleted.openTabs[1])
        ELSE createNewNote(deleted)

\* deleteAllNotes()
deleteAllNotes(w) ==
    createNewNote([flushPendingEditorWork(w) EXCEPT
                      !.notes = <<>>, !.openTabs = <<>>, !.activeNoteId = NoId])

\* the tabs and the active tab localStorage may hold when the page is
\* loaded
SavedTabs == {<<>>, <<Stored(2)>>, <<Stored(2), Stored(1)>>, <<Stored(3), Stored(1)>>}
SavedActiveTabs == {NoId, Stored(1)}

\* initApp(): the saved tabs that still exist are restored, or the first
\* note is opened, or a note is created
InitApp ==
    /\ ~loaded
    /\ \E savedTabs \in SavedTabs, savedActiveTab \in SavedActiveTabs :
        LET restored == [World EXCEPT !.openTabs =
                            SelectSeq(savedTabs, LAMBDA id : id \in
                                {notes[i].id : i \in 1..Len(notes)})]
        IN  Leaves(IF restored.openTabs # <<>>
                   THEN selectNote(restored,
                                   IF indexOf(restored.openTabs, savedActiveTab) > 0
                                   THEN savedActiveTab ELSE restored.openTabs[1])
                   ELSE IF notes # <<>> THEN openTab(restored, notes[1].id)
                   ELSE createNewNote(restored))
    /\ UNCHANGED edited

\* the notes a click can aim at
Targets == {Stored(1), Stored(2), Uuid(1)}

\* a click on a tab that is not the active one
ClickTab ==
    /\ loaded
    /\ \E tabId \in Targets :
        /\ indexOf(app.openTabs, tabId) > 0
        /\ tabId # app.activeNoteId
        /\ Leaves(selectNote(World, tabId))
    /\ UNCHANGED edited

\* a click on the close button of a tab
ClickCloseTab ==
    /\ loaded
    /\ \E tabId \in Targets :
        /\ indexOf(app.openTabs, tabId) > 0
        /\ Leaves(closeTab(World, tabId))
    /\ UNCHANGED edited

\* a click on a note of the sidebar or of the tab manager
ClickNote ==
    /\ loaded
    /\ \E id \in Targets :
        /\ getNoteById(notes, id) # NoNote
        /\ Leaves(openTab(World, id))
    /\ UNCHANGED edited

\* Cmd+J, or a click on the button for a new note
NewNote ==
    /\ loaded
    /\ Leaves(createNewNote(World))
    /\ UNCHANGED edited

\* Cmd+K
ToggleSpotlight ==
    /\ loaded
    /\ Leaves(IF app.isSpotlightOpen THEN closeSpotlight(World) ELSE openSpotlight(World))
    /\ UNCHANGED edited

\* an input event of the spotlight's field
SpotlightInput ==
    /\ loaded
    /\ app.isSpotlightOpen
    /\ \E query \in {<<>>, <<"a">>, <<"z">>} :
        Leaves(renderSpotlight([World EXCEPT !.query = query, !.spotlightIndex = 0]))
    /\ UNCHANGED edited

\* ArrowDown while the spotlight is open
ArrowDown ==
    /\ loaded
    /\ app.isSpotlightOpen
    /\ Leaves([World EXCEPT !.spotlightIndex =
                  IF @ + 1 <= Len(app.filteredNotes) - 1 THEN @ + 1
                  ELSE Len(app.filteredNotes) - 1])
    /\ UNCHANGED edited

\* ArrowUp while the spotlight is open
ArrowUp ==
    /\ loaded
    /\ app.isSpotlightOpen
    /\ Leaves([World EXCEPT !.spotlightIndex = IF @ - 1 >= 0 THEN @ - 1 ELSE 0])
    /\ UNCHANGED edited

\* the index is one of the list
ValidIndex(index, list) == 0 <= index /\ index < Len(list)

\* Enter while the spotlight is open: filteredNotes[spotlightIndex].id
\* throws a TypeError when there is no such entry
SpotlightEnter ==
    /\ loaded
    /\ app.isSpotlightOpen
    /\ Leaves(IF app.filteredNotes = <<>>
                 \/ ~ValidIndex(app.spotlightIndex, app.filteredNotes)
              THEN World
              ELSE closeSpotlight(openTab(World, app.filteredNotes[app.spotlightIndex + 1])))
    /\ UNCHANGED edited

\* Escape while the spotlight is open
SpotlightEscape ==
    /\ loaded
    /\ app.isSpotlightOpen
    /\ Leaves(closeSpotlight(World))
    /\ UNCHANGED edited

\* the button that confirms the deletion of the active note
ConfirmDelete ==
    /\ loaded
    /\ app.activeNoteId # NoId
    /\ Leaves(closeTab([World EXCEPT !.notes = deleteNote(@, app.activeNoteId)],
                       app.activeNoteId))
    /\ UNCHANGED edited

\* the deletion of a note in the tab manager
DeleteFromManager ==
    /\ loaded
    /\ \E noteId \in Targets :
        /\ getNoteById(notes, noteId) # NoNote
        /\ Leaves(deleteNoteFromManager(World, noteId))
    /\ UNCHANGED edited

\* the button that deletes all notes
DeleteAll ==
    /\ loaded
    /\ Leaves(deleteAllNotes(World))
    /\ UNCHANGED edited

\* the contents typed into the editor
TypedContents == {<<>>, <<"a", "b", "c", "d", "e">>}

\* an input event of the editor: debouncedSave(activeNoteId, content,
\* timestamp) starts its timer anew
Input ==
    /\ loaded
    /\ app.activeNoteId # NoId
    /\ \E content \in TypedContents :
        /\ content # app.editor
        /\ Leaves([World EXCEPT !.editor = content,
                                !.pending = [noteId |-> app.activeNoteId,
                                             content |-> content, timestamp |-> now]])
        /\ edited' = [noteId |-> app.activeNoteId, content |-> content]

\* the timer of debouncedSave fires, SAVE_DEBOUNCE_MS after the last input
SaveFires ==
    /\ loaded
    /\ app.pending # NoNote
    /\ Leaves(persistNoteContent([World EXCEPT !.pending = NoNote], app.pending.noteId,
                                 app.pending.content, app.pending.timestamp))
    /\ UNCHANGED edited

Next ==
    \/ Enter
    \/ SplitText
    \/ EvaluateNonString
    \/ Iterate
    \/ Return
    \/ Complete
    \/ Propagate
    \/ Tick
    \/ ConfigureDone

Spec == Init /\ [][Next]_vars

\* the same Calculator handed the texts at and beyond the caps
NextLong ==
    \/ Enter
    \/ SplitLongText
    \/ EvaluateNonString
    \/ Iterate
    \/ Return
    \/ Complete
    \/ Propagate
    \/ Tick
    \/ ConfigureDone

SpecLong == Init /\ [][NextLong]_vars

\* the same Calculator handed the texts of the idioms
NextIdioms ==
    \/ Enter
    \/ SplitIdiomText
    \/ EvaluateNonString
    \/ Iterate
    \/ Return
    \/ Complete
    \/ Propagate
    \/ Tick
    \/ ConfigureDone

SpecIdioms == Init /\ [][NextIdioms]_vars

\* the Calculator and the currency service, with every step of a fetch
NextRates ==
    \/ Enter
    \/ SplitRateText
    \/ Iterate
    \/ Return
    \/ Complete
    \/ Propagate
    \/ Tick
    \/ FetchRates
    \/ Respond
    \/ Wake
    \/ Release
    \/ ConfigureUnits

SpecRates == Init /\ [][NextRates]_vars

\* the notes store, called as its tests call it
NextNotes ==
    \/ EarlierSession
    \/ CreateNote
    \/ SaveNote
    \/ DeleteNote

SpecNotes == Init /\ [][NextNotes]_vars

\* the history store, called as its tests call it
NextHistory ==
    \/ EarlierHistories
    \/ SaveSnapshot

SpecHistory == Init /\ [][NextHistory]_vars

\* the Time Machine over the histories an earlier session left
NextMachine ==
    \/ EarlierHistories
    \/ Open
    \/ Preview
    \/ Close
    \/ Restore

SpecMachine == Init /\ [][NextMachine]_vars

\* the tabs of the app over the notes an earlier session left
NextTabs ==
    \/ EarlierSession
    \/ InitApp
    \/ ClickTab
    \/ ClickCloseTab
    \/ ClickNote
    \/ NewNote
    \/ ConfirmDelete
    \/ DeleteFromManager
    \/ DeleteAll

SpecTabs == Init /\ [][NextTabs]_vars

\* the spotlight and the editor of the app over a few notes
NextSpotlight ==
    \/ EarlierFewNotes
    \/ InitApp
    \/ ToggleSpotlight
    \/ SpotlightInput
    \/ ArrowDown
    \/ ArrowUp
    \/ SpotlightEnter
    \/ SpotlightEscape
    \/ Input
    \/ SaveFires

SpecSpotlight == Init /\ [][NextSpotlight]_vars

\* the editor of the app and its saves.  A timer of debouncedSave that is
\* running and is not cleared fires: that is all the fairness there is;
\* the user may stop at any time.
NextEdits ==
    \/ EarlierFewNotes
    \/ InitApp
    \/ Input
    \/ SaveFires
    \/ NewNote
    \/ ClickTab
    \/ ClickCloseTab
    \/ ClickNote
    \/ ConfirmDelete

SpecEdits == Init /\ [][NextEdits]_vars /\ WF_vars(SaveFires)

(***************************************************************************)
(* evaluate as a function of the text and the clock: the outcomes of the   *)
(* iterations of lines.forEach from an empty scope and the initial running *)
(* state, up to the first exception.                                       *)
(***************************************************************************)
RECURSIVE Outcomes(_, _, _, _)
Outcomes(r, ls, i, t) ==
    IF i > Len(ls) THEN <<>>
    ELSE LET o == ProcessLine(r, ls[i], t)
         IN  IF o.branch = "raised" THEN <<o>>
             ELSE <<o>> \o Outcomes(o.rs, ls, i + 1, t)

evaluate(txt, t) ==
    LET os == Outcomes(InitialRunning(EmptyScope), InputLines(txt), 1, t)
        raised == os # <<>> /\ os[Len(os)].branch = "raised"
        n == IF raised THEN Len(os) - 1 ELSE Len(os)
    IN  [raised |-> raised, results |-> [i \in 1..n |-> os[i].out], outcomes |-> os]

\* a call on a string has returned its list
Returned == pc = "done" /\ isString

\* a call on a string is over: it returned, or an exception left it after
\* idx lines
Finished == pc \in {"done", "raised"} /\ isString

(***************************************************************************)
(* C1.  One entry per line.                                                *)
(***************************************************************************)
\* C1 as stated: for every string text, evaluate(text) returns a list with
\* exactly as many entries as text has lines, entry i being the display
\* string of line i (the one a fresh Calculator gives it there).
C1_OneEntryPerInputLine ==
    /\ pc # "raised"
    /\ Returned =>
          /\ Len(results) = Len(text)
          /\ results = evaluate(text, now).results

(***************************************************************************)
(* C2.  evaluate never raises.                                             *)
(***************************************************************************)
\* C2 as stated: evaluate never raises to its caller; a non-string argument
\* returns an empty list, and a line that fails in any stage is rendered
\* as ''.
C2_NeverRaises ==
    /\ pc # "raised"
    /\ pc = "done" /\ ~isString => results = <<>>

(***************************************************************************)
(* Vocabulary of the claims about the running state.                       *)
(***************************************************************************)
Aggregates == {"sum", "total", "avg", "mean"}

\* the line as it is evaluated: trailing result and format modifier removed
Expression(line) == StripFormatSuffix(_removeTrailingResult(line.toks))

\* the line is nothing but one of the words sum, total, avg, mean
BareReference(line) ==
    Len(Expression(line)) = 1 /\ Lower(Expression(line)[1]) \in Aggregates

\* one of those words occurs in the line as a whole word, in any case
NamesAggregate(line) ==
    \E i \in 1..Len(Expression(line)) : WordsIn(Expression(line)[i]) \cap Aggregates # {}

Countable(v) == IsFiniteNumber(v) \/ IsUnit(v)

\* the line reached the try block, named no aggregate and gave a finite
\* number or a unit quantity
Contributes(line, o) ==
    /\ o.branch \in {"evaluated", "failed"}
    /\ ~NamesAggregate(line)
    /\ Countable(o.result)

\* the sum so far and one more value: added when both are numbers or both
\* are units that add up, else the sum starts again from the value
Plus(acc, v) ==
    IF IsNumber(acc) /\ IsNumber(v) THEN NumAdd(acc, v)
    ELSE IF IsUnit(acc) /\ IsUnit(v) /\ MathAdd(acc, v).ok THEN MathAdd(acc, v).v
    ELSE v

\* the last blank line among lines 1..k (0 when there is none)
BlockStart(ls, k) ==
    LET blanks == {j \in 1..k : ls[j].toks = <<>>}
    IN  IF blanks = {} THEN 0 ELSE CHOOSE j \in blanks : \A b \in blanks : b <= j

RECURSIVE SumFrom(_, _, _, _, _)
SumFrom(acc, ls, os, j, k) ==
    IF j > k THEN acc
    ELSE SumFrom(IF Contributes(ls[j], os[j]) THEN Plus(acc, os[j].result) ELSE acc,
                 ls, os, j + 1, k)

\* sum and count over the contributing lines of the block that holds line k
BlockSum(ls, os, k) == SumFrom(Zero, ls, os, BlockStart(ls, k) + 1, k)
BlockCount(ls, os, k) ==
    Cardinality({j \in BlockStart(ls, k) + 1 .. k : Contributes(ls[j], os[j])})

Mean(s, c) ==
    IF c = 0 THEN Zero
    ELSE IF MathDivide(s, Num(c)).ok THEN MathDivide(s, Num(c)).v ELSE Zero

\* the value of the nearest contributing line among lines 1..k (0 if none)
LastValue(ls, os, k) ==
    LET S == {j \in 1..k : Contributes(ls[j], os[j])}
    IN  IF S = {} THEN Zero
        ELSE os[CHOOSE j \in S : \A b \in S : b <= j].result

\* the display of a value on a line of its own
Shown(v) == IF _formatResult(v).ok THEN _formatResult(v).s ELSE Empty

\* the value of  v + 1  (undefined when the addition throws)
PlusOne(v) == IF MathAdd(v, Num(1)).ok THEN MathAdd(v, Num(1)).v ELSE Undefined

\* the step about to be taken is an iteration ending in one of the branches
StepIn(branches) == pc = "loop" /\ idx < Len(lines) /\ outcome.branch \in branches

(***************************************************************************)
(* C3.  Fail-soft per line.                                                *)
(***************************************************************************)
CommentLine == Line(<<"#">>)

\* the text with every line whose try block threw made a comment
FailedAsComments(txt, os) ==
    [i \in 1..Len(txt) |-> IF os[i].branch = "failed" THEN CommentLine ELSE txt[i]]

\* C3 as stated: a line whose evaluation throws yields '' and leaves the
\* running state as it was, so the results of all other lines are the same
\* as if the failing line had been a comment line.
C3_FailedLineIsInert ==
    Returned =>
        results = evaluate(FailedAsComments(text, evaluate(text, now).outcomes), now).results

(***************************************************************************)
(* C4.  Blank lines.                                                       *)
(***************************************************************************)
BlankExample == <<Line(<<"10">>), BlankLineText, Line(<<"prev", "+", "1">>)>>
ResetExample ==
    <<Line(<<"10">>), Line(<<"20">>), BlankLineText, Line(<<"5">>), Line(<<"sum">>)>>

\* C4: a blank (whitespace-only) line appends '', resets runningSum and
\* runningCount to their initial values and leaves previousResult and
\* hasPreviousResult untouched; "10\n\nprev + 1" gives 11 on line 3 and
\* "10\n20\n\n5\nsum" gives 5 on line 5.
C4_BlankLineResetsBlock ==
    /\ [](Returned /\ text = BlankExample => results[3] = Disp("number", 1100, <<>>))
    /\ [](Returned /\ text = ResetExample => results[5] = Disp("number", 500, <<>>))
    /\ [][StepIn({"blank"}) =>
            /\ results' = Append(results, Empty)
            /\ runningSum' = Zero
            /\ runningCount' = 0
            /\ UNCHANGED <<previousResult, hasPreviousResult>>]_vars

\* after 10 and a line of two spaces: the block is reset, prev is still 10
C4_Witness ==
    /\ pc = "loop"
    /\ idx = 2
    /\ lines[1] = Line(<<"10">>)
    /\ lines[2] = SpacesLineText
    /\ runningSum = Zero
    /\ runningCount = 0
    /\ previousResult = Num(10)
    /\ hasPreviousResult

(***************************************************************************)
(* C5.  sum, total, avg, mean.                                             *)
(***************************************************************************)
RECURSIVE SumOfHundredths(_, _)
SumOfHundredths(S, res) ==
    IF S = {} THEN 0
    ELSE LET j == CHOOSE x \in S : TRUE
         IN  res[j].h + SumOfHundredths(S \ {j}, res)

\* the lines above line i in its block, but for bare references
Above(ls, i) ==
    {j \in BlockStart(ls, i - 1) + 1 .. i - 1 : ls[j].toks # <<>> /\ ~BareReference(ls[j])}

\* every line above line i shows a number
NumbersAbove(ls, res, i) == \A j \in Above(ls, i) : res[j].k = "number"

Shows(ls, res, i) == Above(ls, i)

Counted(v) ==
    /\ runningCount' = runningCount + 1
    /\ previousResult' = v
    /\ hasPreviousResult'

OwnResult(line, t) ==
    IF line.toks[1] \in {"#", "//"} THEN Empty
    ELSE IF _evaluateTimezone(line.toks, t).hit
    THEN Shown(_evaluateTimezone(line.toks, t).v)
    ELSE Shown(_evaluateDate(Expression(line), t).v)

\* C8 as stated: comment lines, lines resolved as timezone queries and
\* lines resolved as dates each append their own result, and nothing else,
\* and leave runningSum, runningCount, previousResult and hasPreviousResult
\* as they were.
C8_FrameOfNonArithmeticLines ==
    [][StepIn({"comment", "timezone", "date", "raised"}) =>
            /\ UNCHANGED <<runningSum, runningCount, previousResult, hasPreviousResult>>
            /\ results' = Append(results, OwnResult(lines[idx + 1], now))]_vars

Oversized(txt) == Len(txt) > MAX_LINES \/ Length(txt) > MAX_INPUT_LENGTH

\* C10 as stated: input beyond the caps is cut to its first MAX_INPUT_LENGTH
\* characters and MAX_LINES lines; the call never raises and evaluates at
\* most MAX_LINES lines.
C10_OversizedBounded ==
    /\ idx <= MAX_LINES
    /\ Len(lines) <= MAX_LINES
    /\ ~(pc = "raised" /\ Oversized(text))

(***************************************************************************)
(* C11.  A result appended to its own expression.                          *)
(***************************************************************************)
\* the line with its own rendered result written after it: L + " = " + r
Appended(line, t) ==
    Line(line.toks \o <<"=">> \o DisplayText(evaluate(<<line>>, t).results[1]))

\* C11 as stated: for every line L of pure arithmetic that assigns nothing,
\* evaluate(L + " = " + r), r being the rendered result of L, gives the
\* same first-line result as evaluate(L).
C11_AppendedResultIsIdempotent ==
    Returned =>
        \A l \in PureLines :
            text = <<Appended(l, now)>> => results[1] = evaluate(<<l>>, now).results[1]

(***************************************************************************)
(* C12.  Simple assignments and trailing results.                          *)
(***************************************************************************)
\* the line is "name = numeral"
SimpleAssignment(line) ==
    /\ Len(line.toks) = 3
    /\ line.toks[1] \in Idents
    /\ line.toks[2] = "="
    /\ line.toks[3] \in Numerals

\* line i of the lines processed is the last one to assign its variable
LastAssignment(i) ==
    /\ i \in 1..idx
    /\ SimpleAssignment(lines[i])
    /\ \A j \in i + 1..idx :
          \A k \in 1..Len(lines[j].toks) - 1 :
              ~(lines[j].toks[k] = lines[i].toks[1] /\ lines[j].toks[k + 1] = "=")

\* the names "Inject dynamic tokens" sets before every line
Injected == Aggregates \cup {"prev"}

\* the value the next line of the call finds under the name
Seen(name) == InjectTokens(rs)[name]

\* a suffix is cut only behind text holding one of + - * / ( %
CutsOnlyBehindMath ==
    \A i \in 1..Len(lines) :
        LET toks == lines[i].toks
            cut == _removeTrailingResult(toks)
        IN  cut # toks =>
                /\ Len(cut) < Len(toks)
                /\ cut = SubSeq(toks, 1, Len(cut))
                /\ toks[Len(cut) + 1] = "="
                /\ HasMath(cut)

EndsInFormat(line) == FormatSuffix(line.toks) # ""

\* C13: a line ending in a format suffix is never rendered as a date (the
\* suffix is taken off and date resolution is skipped): no such line shows
\* a date or lets a date error leave the call, and "64 in oct" shows 0o100.
C13_FormatLineIsNoDate ==
    /\ \A i \in 1..idx :
          EndsInFormat(lines[i]) =>
              /\ results[i].k # "date"
              /\ (lines[i].toks = <<"64", "in", "oct">> =>
                     results[i] = Disp("text", 0, <<"0o", "1", "0", "0">>))
    /\ (pc = "raised" => ~EndsInFormat(lines[idx + 1]))

\* "64 in oct" was processed right after a line that did show a date
C13_Witness ==
    /\ pc = "loop"
    /\ idx = 2
    /\ lines[1] = Line(<<"today">>)
    /\ results[1].k = "date"
    /\ lines[2] = Line(<<"64", "in", "oct">>)
    /\ results[2].k = "text"

(***************************************************************************)
(* C14.  Base formatting.                                                  *)
(***************************************************************************)
\* the line ends in " in hex|bin|oct" or one of the long names
BaseOf(line) ==
    CASE FormatSuffix(line.toks) \in {"hex", "hexadecimal"} -> 16
      [] FormatSuffix(line.toks) \in {"bin", "binary"} -> 2
      [] FormatSuffix(line.toks) \in {"oct", "octal"} -> 8
      [] OTHER -> 0

BasePrefix(base) == CASE base = 16 -> "0x" [] base = 2 -> "0b" [] base = 8 -> "0o"

\* round(n) written in the base behind its prefix
InBase(v, base) ==
    LET r == RoundTo(v, 1) IN
    Disp("text", 0,
         <<BasePrefix(base)>> \o (IF r < 0 THEN <<"-">> ELSE <<>>) \o Digits(Abs(r), base))

\* C14 as stated: on a line "E in hex|bin|oct" whose expression E gives a
\* plain finite number n the result is round(n) written in base 16, 2 or 8
\* behind 0x, 0b or 0o (255 -> 0xFF, 10 -> 0b1010, 64 -> 0o100), and a
\* value that is not a plain finite number is never given a base format.
C14_BaseFormatOnlyOfFiniteNumbers ==
    Finished =>
        \A i \in 1..idx :
            BaseOf(lines[i]) # 0 /\ evaluate(text, now).outcomes[i].branch = "evaluated" =>
                LET v == evaluate(text, now).outcomes[i].result IN
                /\ (IsFiniteNumber(v) => results[i] = InBase(v, BaseOf(lines[i])))
                /\ (~IsFiniteNumber(v) => results[i].k # "text")
                /\ (lines[i].toks = <<"255", "in", "HEX">> =>
                       results[i] = Disp("text", 0, <<"0x", "F", "F">>))
                /\ (lines[i].toks = <<"10", "in", "bin">> =>
                       results[i] = Disp("text", 0, <<"0b", "1", "0", "1", "0">>))

(***************************************************************************)
(* C15.  The currency clause.                                              *)
(***************************************************************************)
\* the running state line i of the text starts from
StateBefore(i) ==
    IF i = 1 THEN InitialRunning(EmptyScope) ELSE evaluate(text, now).outcomes[i - 1].rs

\* line i ends in " in CCC" and reaches the evaluation step
CurrencyLine(i) ==
    /\ InCurrency(Expression(lines[i])) # ""
    /\ evaluate(text, now).outcomes[i].branch \in {"evaluated", "failed"}

\* the expression of line i without its clause, evaluated once in the scope
\* the line starts from
Bare(i) ==
    MathEvaluate(WithoutInClause(_preprocess(Expression(lines[i]))),
                 InjectTokens(StateBefore(i)))

\* the value the claim gives line i, whose bare expression gave v
Claimed(v, currency) ==
    IF currency \in DOMAIN units /\ IsFiniteNumber(v) THEN UnitQ(v.n, v.d, <<currency>>)
    ELSE IF currency \in DOMAIN units /\ IsUnit(v) /\ EqualBase(v, UnitQ(1, 1, <<currency>>))
    THEN ToUnits(v, <<currency>>)
    ELSE v

\* C15 as stated: on a line ending in " in CCC" the expression without the
\* clause is evaluated first; a plain number is given the currency, value
\* unchanged; a unit is converted to the currency; and when that fails the
\* result is the result of the bare expression, not an error.
C15_CurrencyClause ==
    Finished =>
        \A i \in 1..idx :
            (CurrencyLine(i) /\ Bare(i).ok) =>
                results[i] = _formatResult(Claimed(Bare(i).v, InCurrency(Expression(lines[i])))).s

(***************************************************************************)
(* C16.  Currency units and rates.                                         *)
(***************************************************************************)
\* one c is defined as 1 / rate USD
InverseOfRate(c) == units[c].n * rates[c].n = units[c].d * rates[c].d

\* C16 as stated: in every reachable state (before the first fetch
\* completes, after a successful fetch, after the fallback) every defined
\* currency C with rate r is the unit 1 C = (1 / r) USD; with the EUR rate
\* 0.92, "100 USD in EUR" shows 92 EUR.
C16_UnitIsInverseOfRate ==
    /\ \A c \in (DOMAIN units \cap DOMAIN rates) \ {"USD"} : InverseOfRate(c)
    /\ (Returned /\ text = <<Line(<<"100", "USD", "in", "EUR">>)>>
          /\ "EUR" \in DOMAIN rates /\ rates["EUR"] = Frac(92, 100)) =>
            results[1] = Disp("currency", 9200, <<CurrencySymbol("EUR")>>)

(***************************************************************************)
(* C17.  The order of the percentage idioms.                               *)
(***************************************************************************)
\* the rules in the order the claim gives: every "what is" and "as a %"
\* form, then the plain forms
AsPercentBeforePlain(toks) == OfForm(OnOffForms(AsPercentForms(WhatIsForms(toks))))

\* the display of an expression that needs no variable
ShownValue(toks) ==
    IF MathEvaluate(toks, EmptyScope).ok
    THEN _formatResult(MathEvaluate(toks, EmptyScope).v).s
    ELSE Empty

Hundredths(h) == Disp("number", h, <<>>)

\* C17 as stated: "20% of what is 30" = 150, "10% on 100" = 110,
\* "20% off 100" = 80, "50 as a % of 200" = 25.
C17_Examples ==
    Returned =>
        /\ (text = <<Line(<<"20%", "of", "what", "is", "30">>)>>
              => results[1] = Hundredths(15000))
        /\ (text = <<Line(<<"10%", "on", "100">>)>> => results[1] = Hundredths(11000))
        /\ (text = <<Line(<<"20%", "off", "100">>)>> => results[1] = Hundredths(8000))
        /\ (text = <<Line(<<"50", "as", "a", "%", "of", "200">>)>>
              => results[1] = Hundredths(2500))

\* C17 as stated: every line with percentage idioms shows what the rules
\* give when every "what is" and "as a %" form is rewritten before the plain
\* "X% of/on/off Y" forms; and the four examples.
C17_WhatIsAndAsPercentFirst ==
    /\ C17_Examples
    /\ Returned =>
          \A l \in PercentLines :
              text = <<l>> => results[1] = ShownValue(TrailingWords(AsPercentBeforePlain(l.toks)))

\* C17, amended: the rules run once each in the order "X% of/on/off what
\* is Y", "X% on Y", "X% off Y", "X as a % of/on/off Y", "X% of Y", each on
\* the whole text the rules before it left.  So the "on" inside
\* "50 as a % of 10% on 100" is rewritten first and the line shows 45,45
\* (50 as a share of 110); "20% of what is 10% on 100" shows 550; the second
\* "of" of "20% of 10% of 100" is left and the line shows nothing; and the
\* four examples show 150, 110, 80 and 25.
C17_PercentageRuleOrder ==
    /\ C17_Examples
    /\ Returned =>
          /\ (text = <<Line(<<"50", "as", "a", "%", "of", "10%", "on", "100">>)>>
                => results[1] = Hundredths(4545))
          /\ (text = <<Line(<<"20%", "of", "what", "is", "10%", "on", "100">>)>>
                => results[1] = Hundredths(55000))
          /\ (text = <<Line(<<"20%", "of", "10%", "of", "100">>)>> => results[1] = Empty)
          /\ (text = <<Line(<<"10%", "on", "what", "is", "100">>)>>
                => results[1] = Hundredths(9091))
          /\ (text = <<Line(<<"20%", "off", "what", "is", "100">>)>>
                => results[1] = Hundredths(12500))
          /\ (text = <<Line(<<"50", "as", "a", "%", "on", "20">>)>>
                => results[1] = Hundredths(15000))
          /\ (text = <<Line(<<"50", "as", "%", "off", "200">>)>>
                => results[1] = Hundredths(7500))
          /\ (text = <<Line(<<"20%", "of", "100">>)>> => results[1] = Hundredths(2000))

\* the nested line was evaluated
C17_Witness ==
    /\ Returned
    /\ text = <<Line(<<"50", "as", "a", "%", "of", "10%", "on", "100">>)>>
    /\ results[1] = Hundredths(4545)

(***************************************************************************)
(* C18.  One fetch at a time.                                              *)
(***************************************************************************)
\* a fetch begins in this step: fetchRates assigns this.fetchPromise
FetchBegins == ~fetchPromise /\ fetchPromise'
\* a request is sent in this step
RequestSent == outstanding' > outstanding
\* a caller is handed the promise in flight in this step
Shares == sharers' > sharers

\* C18: a fetch begins only when none is in flight and the last successful
\* fetch is 24 hours old or more (or there was none); a request is sent only
\* when no request is outstanding; a caller that finds a fetch in flight
\* shares its promise and sends nothing; so at most one request is
\* outstanding at any time.
C18_OneFetchAtATime ==
    /\ [](outstanding \in {0, 1})
    /\ [][FetchBegins =>
            /\ outstanding = 0
            /\ lastFetch = NoFetch \/ (now - lastFetch) * TickMs >= CACHE_DURATION]_vars
    /\ [][RequestSent => outstanding = 0 /\ fetchPromise']_vars
    /\ [][Shares => fetchPromise /\ fetchPromise' /\ outstanding' = outstanding]_vars

\* two callers share the fetch in flight while its request is outstanding
C18_Witness == sharers >= 2 /\ fetchPromise /\ outstanding = 1

CompleteTable(table) ==
    /\ "USD" \in DOMAIN table
    /\ table["USD"] = Num(1)
    /\ \A c \in DOMAIN table : table[c].k = "num" /\ table[c].n > 0

\* the tables the service can hold: the fallback and what is valid in each
\* body with rates
Tables ==
    {FALLBACK_RATES,
     WithUSD(Table(Frac(92, 100), Frac(80, 100))),
     WithUSD([c \in {"EUR"} |-> Frac(90, 100)]),
     WithUSD([c \in {"GBP"} |-> Frac(75, 100)]),
     WithUSD(<<>>)}

\* the units as one table defines them, from the units of initBasicCurrencies
UnitsOf(table) ==
    [c \in DOMAIN BasicCurrencies |->
        IF c \in DOMAIN table /\ c # "USD"
        THEN [n |-> table[c].d, d |-> table[c].n]
        ELSE BasicCurrencies[c]]

\* C20: the table of the service is at every moment a complete validated
\* table; between the assignment of a new table and the redefinition of the
\* units no evaluate call runs; and while an evaluate call runs the units
\* are those of initBasicCurrencies or those one complete table defines,
\* never a mixture of two.
C20_RefreshIsAtomic ==
    /\ CompleteTable(rates)
    /\ rates \in Tables
    /\ (stage \in {"settled", "released"}) => pc = "idle"
    /\ (pc # "idle") => units \in {BasicCurrencies} \cup {UnitsOf(t) : t \in Tables}

\* an evaluate call runs on units redefined from a body of which one entry
\* was no rate
C20_Witness ==
    /\ pc = "loop"
    /\ currenciesConfigured
    /\ units = UnitsOf(WithUSD([c \in {"EUR"} |-> Frac(90, 100)]))

(***************************************************************************)
(* C24.  The running state after a line.                                   *)
(***************************************************************************)
\* the next line is a non-informational line that math.evaluate evaluates
EvaluatesNext ==
    /\ pc = "loop"
    /\ idx < Len(lines)
    /\ idx' = idx + 1
    /\ outcome.branch \in {"evaluated", "failed"}
    /\ ~isInformational(lines[idx + 1].toks)

\* the sum after a result of the kind "num" or "unit"
SumAfter(sum, result) ==
    IF result.k = "num"
    THEN IF sum.k \in {"num", "inf", "nan"} THEN NumAdd(sum, result) ELSE result
    ELSE IF sum.k = "unit" /\ EqualBase(sum, result) THEN MathAdd(sum, result).v
    ELSE result

\* C24: a non-informational line whose result is a finite number adds it to
\* a numeric runningSum and replaces any other; one whose result is a unit
\* quantity adds it to a runningSum of the same dimensions and replaces any
\* other; either way runningCount grows by 1 and previousResult becomes the
\* result; any other result leaves the three alone.
C24_RunningStateUpdate ==
    [][EvaluatesNext =>
         IF outcome.result.k \in {"num", "unit"}
         THEN /\ runningSum' = SumAfter(runningSum, outcome.result)
              /\ runningCount' = runningCount + 1
              /\ previousResult' = outcome.result
         ELSE UNCHANGED <<runningSum, runningCount, previousResult>>]_vars

\* a number came after a unit quantity and replaced the sum, and a unit
\* quantity of other dimensions came after that and replaced it again
C24_Witness ==
    /\ pc = "loop"
    /\ idx = 3
    /\ text = <<Line(<<"100", "in", "EUR">>), Line(<<"100", "in", "XYZ">>),
                Line(<<"x", "=", "1", "kg">>)>>
    /\ runningCount = 3
    /\ runningSum = UnitQ(1, 1, <<"kg">>)

(***************************************************************************)
(* C25.  The retry of configureCurrencies.                                 *)
(***************************************************************************)
\* the configuration run is over and no request of its fetch brought rates
ConfiguredWithoutLiveRates ==
    /\ ~configurePromise
    /\ stage = "none"
    /\ lastFetch = NoFetch

\* C25: when the live rates could not be obtained, currenciesConfigured
\* stays false and a retry of configureCurrencies is pending.
C25_RetryUntilLiveRates ==
    ConfiguredWithoutLiveRates => ~currenciesConfigured /\ currencyRetryTimeout

(***************************************************************************)
(* C21.  The ids of the stored notes.                                      *)
(***************************************************************************)
Ids(list) == {list[i].id : i \in 1..Len(list)}

\* the step is a call of saveNote with a note whose id is in the store
SavesExisting ==
    /\ call'.op = "saveNote"
    /\ ~Invalid(call'.arg)
    /\ call'.arg.id \in Ids(notes)

\* C21: no two stored notes share an id; saveNote on an id of the store
\* changes that note where it is and adds none; saveNote without a note
\* or without an id returns null and changes nothing; createNote puts one
\* note with an id no stored note has at the front.
C21_UniqueIds ==
    /\ [](Cardinality(Ids(notes)) = Len(notes))
    /\ [][SavesExisting =>
            /\ Len(notes') = Len(notes)
            /\ \A k \in 1..Len(notes) :
                 IF notes[k].id = call'.arg.id
                 THEN /\ notes'[k].id = notes[k].id
                      /\ notes'[k].content = call'.arg.content
                      /\ call'.value = notes'[k]
                 ELSE notes'[k] = notes[k]]_vars
    /\ [][call'.op = "saveNote" /\ Invalid(call'.arg) =>
            call'.value = NoNote /\ notes' = notes]_vars
    /\ [][uuids' # uuids =>
            /\ call'.op = "createNote"
            /\ notes'[1] = call'.value
            /\ call'.value.id \notin Ids(notes)
            /\ Ids(Tail(notes')) \subseteq Ids(notes)
            /\ Len(notes) < MAX_NOTES => Tail(notes') = notes]_vars

\* the first created note and the second stored note were saved where they
\* are
C21_Witness ==
    /\ Len(notes) = 3
    /\ notes[1].id = Uuid(1)
    /\ notes[3] = Note(Stored(2), <<"b">>, -2, 0)
    /\ call = Call("saveNote", [id |-> Stored(1), content |-> <<"a">>], notes[2])

(***************************************************************************)
(* C26.  The limit on the number of notes.                                 *)
(***************************************************************************)
\* C26: the store never holds more than MAX_NOTES notes.
C26_AtMostMaxNotes == Len(notes) <= MAX_NOTES

(***************************************************************************)
(* C27.  The histories of the history store.                               *)
(***************************************************************************)
\* the snapshots of a history are in the order of their timestamps
Chronological(history) ==
    \A i \in 1..(Len(history) - 1) : history[i].timestamp <= history[i + 1].timestamp

\* the history is the end of the other one
IsSuffix(history, other) ==
    /\ Len(history) <= Len(other)
    /\ history = SubSeq(other, Len(other) - Len(history) + 1, Len(other))

\* the cached copy of a note's history, empty while there is none
Cached(noteId) == IF historyCache[noteId].has THEN historyCache[noteId].history ELSE <<>>

\* what the history of the note is before the step
Before(noteId) ==
    IF historyCache[noteId].has THEN historyCache[noteId].history
    ELSE historyStorage[noteId]

\* C27: the cached and the persisted history of every note hold at most
\* MAX_SNAPSHOTS snapshots in chronological order; a call of saveSnapshot
\* that saves leaves the end of the old history followed by the new
\* snapshot, so that the oldest are dropped first; a call whose change
\* magnitude against the last snapshot is below MIN_CHANGE_THRESHOLD
\* returns false and leaves the history as it was.
C27_BoundedHistory ==
    /\ [](\A id \in HistoryIds :
            /\ Len(Cached(id)) <= MAX_SNAPSHOTS
            /\ Len(historyStorage[id]) <= MAX_SNAPSHOTS
            /\ Chronological(Cached(id))
            /\ Chronological(historyStorage[id]))
    /\ [][taken' # taken =>
            /\ call'.value = Gave(TRUE)
            /\ LET id == call'.arg.noteId
                   full == Append(Before(id), Snapshot(now, call'.arg.content))
                   newest == IF Len(full) > MAX_SNAPSHOTS
                             THEN SubSeq(full, Len(full) - MAX_SNAPSHOTS + 1, Len(full))
                             ELSE full
               IN  /\ historyCache'[id].has
                   /\ IsSuffix(historyCache'[id].history, full)
                   /\ \/ historyStorage'[id] = historyCache'[id].history
                      \/ /\ historyStorage'[id] = historyStorage[id]
                         /\ historyCache'[id].history = newest
                   /\ \A other \in HistoryIds \ {id} :
                        /\ historyStorage'[other] = historyStorage[other]
                        /\ historyCache'[other] = historyCache[other]]_vars
    /\ [][/\ call'.op = "saveSnapshot"
          /\ call'.arg.noteId # NoId
          /\ Before(call'.arg.noteId) # <<>>
          /\ getChangeMagnitude(
                 Before(call'.arg.noteId)[Len(Before(call'.arg.noteId))].content,
                 call'.arg.content) < MIN_CHANGE_THRESHOLD
          => /\ call'.value = Gave(FALSE)
             /\ historyStorage' = historyStorage
             /\ \A id \in HistoryIds : Before(id)' = Before(id)]_vars

\* a full history took one more snapshot and lost its oldest, and the next
\* call changed too little
C27_Witness ==
    /\ taken = 1
    /\ Len(Cached(Stored(2))) = MAX_SNAPSHOTS
    /\ historyStorage[Stored(2)] = Cached(Stored(2))
    /\ Cached(Stored(2))[1] = HistoryOf(MAX_SNAPSHOTS)[2]
    /\ Cached(Stored(2))[MAX_SNAPSHOTS].content = <<"a", "b", "c", "d", "e">>
    /\ call = Call("saveSnapshot",
                   [noteId |-> Stored(2), content |-> <<"a", "b", "c", "d", "e", "f">>],
                   Gave(FALSE))

(***************************************************************************)
(* C22.  close() and restore() of the Time Machine.                        *)
(***************************************************************************)
\* C22: a successful open keeps the note's id and the content of the
\* editor, and nothing but another open changes them while the Time
\* Machine is open; close() on the open Time Machine emits that content in
\* its event and calls no restore callback; restore() calls the restore
\* callback once, with the id of the open note and the content of the
\* selected snapshot; both leave the Time Machine closed, and on the closed
\* Time Machine both do nothing.
C22_CloseAndRestore ==
    /\ [][call'.op = "open" /\ call'.arg.noteId # NoId =>
            /\ call'.value = Gave(TRUE)
            /\ timeMachine'.isOpen
            /\ timeMachine'.currentNoteId = call'.arg.noteId
            /\ timeMachine'.originalContent = call'.arg.content]_vars
    /\ [][timeMachine.isOpen /\ timeMachine'.isOpen /\ call'.op # "open" =>
            /\ timeMachine'.currentNoteId = timeMachine.currentNoteId
            /\ timeMachine'.originalContent = timeMachine.originalContent
            /\ timeMachine'.snapshots = timeMachine.snapshots]_vars
    /\ [][timeMachine.isOpen /\ call'.op = "close" =>
            /\ call'.value = [event |-> timeMachine.originalContent]
            /\ ~timeMachine'.isOpen]_vars
    /\ [][timeMachine.isOpen /\ call'.op = "restore" =>
            /\ call'.value =
                 [callback |->
                    [noteId |-> timeMachine.currentNoteId,
                     content |->
                        timeMachine.snapshots[timeMachine.currentIndex + 1].content]]
            /\ ~timeMachine'.isOpen]_vars
    /\ [][~timeMachine.isOpen /\ call'.op \in {"close", "restore"} =>
            /\ call'.value = NoNote
            /\ timeMachine' = timeMachine]_vars

\* restore() has handed an older snapshot of the second note to the
\* callback
C22_Witness ==
    /\ ~timeMachine.isOpen
    /\ call = Call("restore", NoNote,
                   [callback |-> [noteId |-> Stored(2),
                                  content |-> <<"a", "b", "c", "d", "e">>]])
    /\ historyCache[Stored(2)] = [has |-> TRUE, history |-> HistoryOf(MAX_SNAPSHOTS)]

(***************************************************************************)
(* C30.  The open tabs.                                                    *)
(***************************************************************************)
\* C30: once initApp has run, after every handler openTabs is not empty
\* and holds no id twice, activeNoteId is one of its entries, and every
\* entry is the id of a note of the store.
C30_TabsAreNotes ==
    loaded =>
        /\ app.openTabs # <<>>
        /\ \A i, j \in 1..Len(app.openTabs) :
             i # j => app.openTabs[i] # app.openTabs[j]
        /\ \E i \in 1..Len(app.openTabs) : app.openTabs[i] = app.activeNoteId
        /\ \A i \in 1..Len(app.openTabs) :
             \E k \in 1..Len(notes) : notes[k].id = app.openTabs[i]

(***************************************************************************)
(* C29.  The index of the spotlight.                                       *)
(***************************************************************************)
\* C29: whenever the list of the spotlight is not empty, spotlightIndex is
\* an index of filteredNotes: 0 <= spotlightIndex < filteredNotes.length.
C29_IndexInList ==
    app.filteredNotes # <<>> =>
        0 <= app.spotlightIndex /\ app.spotlightIndex < Len(app.filteredNotes)

(***************************************************************************)
(* C28.  The edits of the active note.                                     *)
(***************************************************************************)
\* the notes that are edited
EditedIds == {Stored(1), Stored(2), Uuid(1), Uuid(2)}

\* the store holds the content under the id of the note
Holds(noteId, content) ==
    \E k \in 1..Len(notes) : notes[k].id = noteId /\ notes[k].content = content

\* C28: after an input event on the active note the store eventually holds
\* that content under the id of that note, unless a later input event
\* follows or the note is deleted.
C28_NoEditLost ==
    \A noteId \in EditedIds, content \in TypedContents :
        (edited = [noteId |-> noteId, content |-> content])
            ~> \/ Holds(noteId, content)
               \/ edited # [noteId |-> noteId, content |-> content]
               \/ \A k \in 1..Len(notes) : notes[k].id # noteId

(***************************************************************************)
(* C23.  The snapshots taken while the user types.                         *)
(***************************************************************************)
\* C23: after an edit whose content differs from the last snapshot of the
\* note by MIN_CHANGE_THRESHOLD or more, the history of the note
\* eventually holds a snapshot with that content, unless a later input
\* event follows.
C23_SnapshotWhileTyping ==
    \A noteId \in HistoryIds, content \in TypedContents :
        (/\ edited = [noteId |-> noteId, content |-> content]
         /\ ~NotEnoughChange(loadHistory(noteId), content))
            ~> \/ \E i \in 1..Len(loadHistory(noteId)) :
                     loadHistory(noteId)[i].content = content
               \/ edited # [noteId |-> noteId, content |-> content]

====
